---------------------------- MODULE Spec2Model ----------------------------
(***************************************************************************)
(* Robo Rex controller: the hold-to-repeat dispatcher of ControllerPanel   *)
(* (startHold / stopHold / the cancel effect) and the BLE write pipeline   *)
(* (WriteQueue, writeChunkSafe, sendString).                               *)
(***************************************************************************)
EXTENDS Integers, Sequences, FiniteSets, TLC

(***************************************************************************)
(* Bounds of the model.                                                    *)
(***************************************************************************)
MaxPress == 2
MaxLog == 4
MaxEnv == 1
MaxMsgs == 2
MaxChunks == 2
MaxSubs == 2
MaxDisc == 2
MaxConnect == 2

(***************************************************************************)
(* Static tables of ControllerPanel.                                       *)
(***************************************************************************)
NULL == "null"

Dirs == {"up", "down", "left", "right"}

PANELS == {"legsPelvis", "headNeck", "tailSpine", "fullBody"}

subsOf(panelId) ==
  CASE panelId = "legsPelvis" -> {"legs", "pelvis"}
    [] panelId = "headNeck"   -> {"head", "neck"}
    [] panelId = "tailSpine"  -> {"tail", "spine"}
    [] panelId = "fullBody"   -> {"full"}

AllSubs == UNION {subsOf(p) : p \in PANELS}

\* The two builds of the panel: the one that resolves a command string from
\* commandBySub, and the one that builds the ESP packet with buildEspPacket.
Variants == {"commandBySub", "buildEspPacket"}

allowedBySub(panelId, sub, dir) ==
  CASE panelId = "legsPelvis" /\ sub = "legs"   -> dir \in {"up", "down", "left", "right"}
    [] panelId = "legsPelvis" /\ sub = "pelvis" -> dir \in {"up", "down"}
    [] panelId = "headNeck"   /\ sub = "head"   -> dir \in {"up", "down"}
    [] panelId = "headNeck"   /\ sub = "neck"   -> dir \in {"left", "right"}
    [] panelId = "tailSpine"  /\ sub = "tail"   -> dir \in {"left", "right"}
    [] panelId = "tailSpine"  /\ sub = "spine"  -> dir \in {"up", "down"}
    [] panelId = "fullBody"   /\ sub = "full"   -> dir \in {"up", "down", "left", "right"}
    [] OTHER -> FALSE

isAllowed(panelId, sub, dir) == allowedBySub(panelId, sub, dir)

commandBySub(panelId, sub, dir) ==
  CASE panelId = "legsPelvis" /\ sub = "legs" ->
         (CASE dir = "up" -> "move_forward" [] dir = "down" -> "move_backward"
            [] dir = "left" -> "move_left"  [] dir = "right" -> "move_right"
            [] OTHER -> NULL)
    [] panelId = "legsPelvis" /\ sub = "pelvis" ->
         (CASE dir = "up" -> "pelvis_up" [] dir = "down" -> "pelvis_down" [] OTHER -> NULL)
    [] panelId = "headNeck" /\ sub = "head" ->
         (CASE dir = "up" -> "head_up" [] dir = "down" -> "head_down" [] OTHER -> NULL)
    [] panelId = "headNeck" /\ sub = "neck" ->
         (CASE dir = "left" -> "neck_left" [] dir = "right" -> "neck_right" [] OTHER -> NULL)
    [] panelId = "tailSpine" /\ sub = "tail" ->
         (CASE dir = "left" -> "tail_left" [] dir = "right" -> "tail_right" [] OTHER -> NULL)
    [] panelId = "tailSpine" /\ sub = "spine" ->
         (CASE dir = "up" -> "spine_up" [] dir = "down" -> "spine_down" [] OTHER -> NULL)
    [] panelId = "fullBody" /\ sub = "full" ->
         (CASE dir = "up" -> "up" [] dir = "down" -> "down"
            [] dir = "left" -> "left" [] dir = "right" -> "right" [] OTHER -> NULL)
    [] OTHER -> NULL

resolveCommand(panelId, sub, dir) == commandBySub(panelId, sub, dir)

\* A packet of buildEspPacket: cmd and, for the setpoint commands, a level
\* (written as the decimal the code uses; "none" when the field is absent).
NoPacket == [cmd |-> NULL, level |-> "none"]

CmdPacket(c) == [cmd |-> c, level |-> "none"]

\* A table of the walk commands that knows the forward direction only.
walkCmdForward(dir) == IF dir = "up" THEN "rex_walk_forward" ELSE NULL

walkCmd(dir) ==
  CASE dir = "up" -> "rex_walk_forward" [] dir = "down" -> "rex_walk_backward"
    [] dir = "left" -> "rex_turn_left"  [] dir = "right" -> "rex_turn_right"
    [] OTHER -> NULL

buildEspPacket(panelId, sub, dir, phase) ==
  CASE panelId = "legsPelvis" /\ sub = "legs" ->
         IF walkCmd(dir) = NULL THEN NoPacket
         ELSE IF phase = "stop" THEN CmdPacket("rex_stop") ELSE CmdPacket(walkCmd(dir))
    [] panelId = "legsPelvis" /\ sub = "pelvis" ->
         IF phase # "stop"
         THEN (CASE dir = "up"   -> [cmd |-> "rex_pelvis_set", level |-> "0.6"]
                 [] dir = "down" -> [cmd |-> "rex_pelvis_set", level |-> "0.4"]
                 [] OTHER -> NoPacket)
         ELSE [cmd |-> "rex_pelvis_set", level |-> "0.5"]
    [] panelId = "tailSpine" /\ sub = "spine" ->
         (CASE dir = "up" -> CmdPacket("rex_spine_up")
            [] dir = "down" -> CmdPacket("rex_spine_down")
            [] OTHER -> NoPacket)
    [] panelId = "tailSpine" /\ sub = "tail" ->
         IF phase # "stop"
         THEN (CASE dir = "left"  -> [cmd |-> "rex_tail_set", level |-> "1.0"]
                 [] dir = "right" -> [cmd |-> "rex_tail_set", level |-> "0.0"]
                 [] OTHER -> NoPacket)
         ELSE [cmd |-> "rex_tail_set", level |-> "0.5"]
    [] panelId = "headNeck" /\ sub = "neck" ->
         (CASE dir = "left" -> CmdPacket("rex_neck_left")
            [] dir = "right" -> CmdPacket("rex_neck_right")
            [] OTHER -> NoPacket)
    [] panelId = "headNeck" /\ sub = "head" ->
         (CASE dir = "up" -> CmdPacket("rex_head_up")
            [] dir = "down" -> CmdPacket("rex_head_down")
            [] OTHER -> NoPacket)
    [] panelId = "fullBody" /\ sub = "full" ->
         IF walkCmd(dir) = NULL THEN NoPacket
         ELSE IF phase = "stop" THEN CmdPacket("rex_stop") ELSE CmdPacket(walkCmd(dir))
    [] OTHER -> NoPacket

repeatIntervalMs == 140

\* Time is counted in units of 20 ms.
repeatUnits == repeatIntervalMs \div 20

(***************************************************************************)
(* State of the panel.                                                     *)
(***************************************************************************)
VARIABLES
  variant,       \* which build of the panel runs
  selection,     \* useState: the selected panel
  subSelection,  \* useState: the sub-part chosen in each panel
  activeDir,     \* useState: the active direction, or NULL
  timerRef,      \* useRef: the interval id last stored (0 is null)
  timers,        \* the intervals armed in the browser, each with its closure
  connected,     \* the connected prop
  log,           \* the packets produced, in order
  npress,        \* number of startHold calls so far
  lastPress,     \* the direction given to the last startHold call
  nenv,          \* number of selection, sub-part and connected changes so far
  elapsed,       \* 20 ms units since the last accepted press or release
  server,        \* bleClient: the GATT server handle (1: bound, 0: undefined)
  txChar,        \* bleClient: the write characteristic (1: bound, 0: undefined)
  msgs,          \* the sendString calls so far: byte length, and whether enqueued
  queue,         \* WriteQueue: the tasks chained behind the running one
  chain,         \* WriteQueue: how the last settled promise of _chain settled
  tasks,         \* the message tasks that are running
  inflight,      \* the channel writes started and not yet settled
  calls,         \* the channel writes settled so far, in order
  done,          \* the sendString promises settled so far, in order
  gatt,          \* the platform's server.connected
  rxChar,        \* bleClient: the notify characteristic (0: undefined)
  listening,     \* handleDisconnected is a gattserverdisconnected listener
  conns,         \* the connect() calls in progress, each with its position
  nconn,         \* number of connect() calls so far
  connecting,    \* App useState: connecting
  appSeen,       \* the App state of the last render (button and closures)
  lastTry,       \* how the last connect() that ended did end
  lastReq,       \* what the last connect request did: "skipped" or "started"
  down,          \* a peer disconnect was handled and no connect succeeded since
  stopping,      \* the disconnect() calls waiting for stopNotifications()
  discs,         \* the disconnect() calls that ended, with how they ended
  messageHandlers,     \* the Set messageHandlers, in insertion order
  disconnectHandlers,  \* the Set disconnectHandlers, in insertion order
  subs,          \* the onMessage / onDisconnect calls of the subscribers
  lastEvent,     \* the platform event handled last, with the callbacks it ran
  line,          \* the string given to the sendString call under test
  bytes,         \* sendString: the encoded bytes
  offset,        \* sendString: the loop index i
  written,       \* the slices written to the characteristic, in order
  cpc,           \* where that sendString call is
  supported,     \* navigator.bluetooth is there
  linked,        \* the devices with a live GATT link that handleDisconnected observes
                 \* (followed where several devices are selected)
  mounted,       \* the panel is mounted
  console,       \* the console line printed last; n is its packet in log
  wire,          \* the sendOverBLE call made last (for packet at), and how it ended
  cancelled,     \* the last pointer-leave, blur or teardown, and what it found
  query,         \* the arguments given to the resolver under test
  answer         \* what the resolver returned for them

dvars == <<variant, selection, subSelection, activeDir, timerRef, timers,
           connected, log, npress, lastPress, nenv, elapsed>>

qvars == <<server, txChar, msgs, queue, chain, tasks, inflight, calls, done>>

\* App and connect / disconnect progress.
avars == <<conns, nconn, connecting, appSeen, lastTry, lastReq, down, stopping,
           discs>>

lvars == <<gatt, rxChar, listening, avars>>

hvars == <<messageHandlers, disconnectHandlers, subs, lastEvent>>

cvars == <<line, bytes, offset, written, cpc>>

\* The platform, the panel's console and transport calls, the resolver test.
pvars == <<supported, linked, mounted, console, wire, cancelled, query, answer>>

vars == <<dvars, qvars, lvars, hvars, cvars, pvars>>

currentSub == subSelection[selection]

\* The packet a (target, sub, dir, phase) resolves to in the running build,
\* as startHold and stopHold test it.
hasPacket(v, panelId, sub, dir, phase) ==
  IF v = "commandBySub"
  THEN resolveCommand(panelId, sub, dir) # NULL
  ELSE buildEspPacket(panelId, sub, dir, phase) # NoPacket

\* A startHold that returns early on nothing.
pressGateOpen(v, panelId, sub, dir) == TRUE

\* The guard of startHold: the two early returns.
pressGate(v, panelId, sub, dir) ==
  isAllowed(panelId, sub, dir) /\ hasPacket(v, panelId, sub, dir, "start")

Packet(phase, target, sub, dir, tx) ==
  [phase |-> phase, target |-> target, sub |-> sub, dir |-> dir, tx |-> tx]

\* The cleanup of the effect on [stopHold], run by the commit that follows a
\* state change which gives stopHold a new identity (stopHold is memoised on
\* activeDir, selection, currentSub and connected; the callers pass the ones
\* their handler can change):
\*   if (timerRef.current) clearInterval(timerRef.current)
effectCleanup(depsBefore, depsAfter, ref, armed) ==
  IF depsBefore # depsAfter THEN {t \in armed : t.id # ref} ELSE armed

DispInit ==
  /\ variant \in Variants
  /\ selection = "tailSpine"
  /\ subSelection = [p \in PANELS |->
                       CASE p = "legsPelvis" -> "legs" [] p = "headNeck" -> "head"
                         [] p = "tailSpine" -> "tail" [] p = "fullBody" -> "full"]
  /\ activeDir = NULL
  /\ timerRef = 0
  /\ timers = {}
  /\ connected = FALSE
  /\ log = <<>>
  /\ npress = 0
  /\ lastPress = NULL
  /\ nenv = 0
  /\ elapsed = 0
  /\ server = 0
  /\ txChar = 0
  /\ msgs = <<>>
  /\ queue = <<>>
  /\ chain = "fulfilled"
  /\ tasks = {}
  /\ inflight = {}
  /\ calls = <<>>
  /\ done = <<>>
  /\ gatt = FALSE
  /\ rxChar = 0
  /\ listening = FALSE
  /\ conns = {}
  /\ nconn = 0
  /\ connecting = FALSE
  /\ appSeen = [connecting |-> FALSE, connected |-> FALSE]
  /\ lastTry = "none"
  /\ lastReq = "none"
  /\ down = FALSE
  /\ stopping = {}
  /\ discs = <<>>
  /\ messageHandlers = <<>>
  /\ disconnectHandlers = <<>>
  /\ subs = <<>>
  /\ lastEvent = [kind |-> "none", raw |-> <<>>, arg |-> <<>>, ran |-> <<>>,
                  threw |-> FALSE, live |-> {}, tick |-> 0]
  /\ line = <<>>
  /\ bytes = <<>>
  /\ offset = 0
  /\ written = <<>>
  /\ cpc = "idle"
  /\ supported = TRUE
  /\ linked = {}
  /\ mounted = TRUE
  /\ console = [n |-> 0, tag |-> "none", phase |-> "none", line |-> <<>>]
  /\ wire = [at |-> 0, line |-> <<>>, res |-> "none", caught |-> TRUE]
  /\ cancelled = [kind |-> "none", dir |-> NULL]
  /\ query = [v |-> "none", panelId |-> NULL, sub |-> NULL, dir |-> NULL, phase |-> NULL,
              done |-> FALSE]
  /\ answer = NoPacket

\* startHold(dir), with the render and effect pass that follows setActiveDir.
startHold(dir) ==
  /\ UNCHANGED <<qvars, lvars, hvars, cvars, pvars>>
  /\ npress < MaxPress
  /\ npress' = npress + 1
  /\ lastPress' = dir
  /\ IF pressGate(variant, selection, currentSub, dir)
     THEN LET id == npress + 1
              t  == [id |-> id, target |-> selection, sub |-> currentSub,
                     dir |-> dir, conn |-> connected, due |-> repeatUnits]
          IN /\ activeDir' = dir
             /\ log' = Append(log, Packet("start", selection, currentSub, dir, connected))
             /\ timerRef' = id
             /\ timers' = effectCleanup(<<activeDir>>, <<dir>>, id, timers \cup {t})
             /\ elapsed' = 0
     ELSE UNCHANGED <<activeDir, log, timerRef, timers, elapsed>>
  /\ UNCHANGED <<variant, selection, subSelection, connected, nenv>>

\* A stopHold that drops the handle and leaves the interval running.
disarmHandleOnly(ref, armed) == armed

\* The head of stopHold: if (timerRef.current) clearInterval(timerRef.current).
disarm(ref, armed) == {t \in armed : t.id # ref}

\* stopHold(), called by the window listeners (mouseup, touchend, touchcancel).
stopHold ==
  /\ UNCHANGED <<qvars, lvars, hvars, cvars, pvars>>
  /\ timers' = disarm(timerRef, timers)
  /\ timerRef' = 0
  /\ log' = IF activeDir # NULL /\ hasPacket(variant, selection, currentSub, activeDir, "stop")
            THEN Append(log, Packet("stop", selection, currentSub, activeDir, connected))
            ELSE log
  /\ activeDir' = NULL
  /\ elapsed' = 0
  /\ UNCHANGED <<variant, selection, subSelection, connected, npress, lastPress, nenv>>

\* The callback of an armed interval: one hold packet from its closure.
holdTick(t) ==
  /\ UNCHANGED <<qvars, lvars, hvars, cvars, pvars>>
  /\ t \in timers
  /\ Len(log) < MaxLog
  /\ log' = Append(log, Packet("hold", t.target, t.sub, t.dir, t.conn))
  /\ UNCHANGED <<variant, selection, subSelection, activeDir, timerRef, timers,
                 connected, npress, lastPress, nenv, elapsed>>

\* Panel onActivate / onKey: setSelection(id), then render and effects.
selectPanel(id) ==
  /\ UNCHANGED <<qvars, lvars, hvars, cvars, pvars>>
  /\ nenv < MaxEnv
  /\ nenv' = nenv + 1
  /\ id # selection
  /\ selection' = id
  /\ timers' = effectCleanup(<<selection, currentSub>>, <<id, subSelection[id]>>,
                             timerRef, timers)
  /\ UNCHANGED <<variant, subSelection, activeDir, timerRef, connected, log,
                 npress, lastPress, elapsed>>

\* Tabs onClick: setSubSelection(s => ({...s, [panelId]: opt})).
selectSub(panelId, opt) ==
  /\ UNCHANGED <<qvars, lvars, hvars, cvars, pvars>>
  /\ nenv < MaxEnv
  /\ nenv' = nenv + 1
  /\ opt \in subsOf(panelId)
  /\ opt # subSelection[panelId]
  /\ subSelection' = [subSelection EXCEPT ![panelId] = opt]
  /\ timers' = effectCleanup(<<currentSub>>, <<subSelection'[selection]>>,
                             timerRef, timers)
  /\ UNCHANGED <<variant, selection, activeDir, timerRef, connected, log,
                 npress, lastPress, elapsed>>

\* The parent re-renders the panel with another value of the connected prop.
setConnected(b) ==
  /\ UNCHANGED <<qvars, lvars, hvars, cvars, pvars>>
  /\ nenv < MaxEnv
  /\ nenv' = nenv + 1
  /\ b # connected
  /\ connected' = b
  /\ timers' = effectCleanup(<<connected>>, <<b>>, timerRef, timers)
  /\ UNCHANGED <<variant, selection, subSelection, activeDir, timerRef, log,
                 npress, lastPress, elapsed>>

DispNext ==
  \/ \E dir \in Dirs : startHold(dir)
  \/ stopHold
  \/ \E t \in timers : holdTick(t)
  \/ \E id \in PANELS : selectPanel(id)
  \/ \E p \in PANELS, s \in AllSubs : selectSub(p, s)
  \/ \E b \in BOOLEAN : setConnected(b)

SpecDispatch == DispInit /\ [][DispNext]_vars


(***************************************************************************)
(* The panel with time: 20 ms units, every interval due after 140 ms.      *)
(***************************************************************************)
holdUnits == 500 \div 20

\* 20 ms pass; an interval that is due runs its callback first.
advance ==
  /\ elapsed < holdUnits
  /\ \A t \in timers : t.due > 0
  /\ elapsed' = elapsed + 1
  /\ timers' = {[t EXCEPT !.due = @ - 1] : t \in timers}
  /\ UNCHANGED <<variant, selection, subSelection, activeDir, timerRef,
                 connected, log, npress, lastPress, nenv>>
  /\ UNCHANGED <<qvars, lvars, hvars, cvars, pvars>>

\* The callback of an interval that is due; the browser re-arms it.
timedTick(t) ==
  /\ t \in timers
  /\ t.due = 0
  /\ Len(log) < MaxLog
  /\ log' = Append(log, Packet("hold", t.target, t.sub, t.dir, t.conn))
  /\ timers' = (timers \ {t}) \cup {[t EXCEPT !.due = repeatUnits]}
  /\ UNCHANGED <<variant, selection, subSelection, activeDir, timerRef,
                 connected, npress, lastPress, nenv, elapsed>>
  /\ UNCHANGED <<qvars, lvars, hvars, cvars, pvars>>

\* Scenario B starts with Legs / Pelvis selected and its default sub-part legs.
TimedInit ==
  /\ variant \in Variants
  /\ selection = "legsPelvis"
  /\ subSelection = [p \in PANELS |->
                       CASE p = "legsPelvis" -> "legs" [] p = "headNeck" -> "head"
                         [] p = "tailSpine" -> "tail" [] p = "fullBody" -> "full"]
  /\ activeDir = NULL
  /\ timerRef = 0
  /\ timers = {}
  /\ connected \in BOOLEAN
  /\ log = <<>>
  /\ npress = 0
  /\ lastPress = NULL
  /\ nenv = 0
  /\ elapsed = 0
  /\ server = 0
  /\ txChar = 0
  /\ msgs = <<>>
  /\ queue = <<>>
  /\ chain = "fulfilled"
  /\ tasks = {}
  /\ inflight = {}
  /\ calls = <<>>
  /\ done = <<>>
  /\ gatt = FALSE
  /\ rxChar = 0
  /\ listening = FALSE
  /\ conns = {}
  /\ nconn = 0
  /\ connecting = FALSE
  /\ appSeen = [connecting |-> FALSE, connected |-> FALSE]
  /\ lastTry = "none"
  /\ lastReq = "none"
  /\ down = FALSE
  /\ stopping = {}
  /\ discs = <<>>
  /\ messageHandlers = <<>>
  /\ disconnectHandlers = <<>>
  /\ subs = <<>>
  /\ lastEvent = [kind |-> "none", raw |-> <<>>, arg |-> <<>>, ran |-> <<>>,
                  threw |-> FALSE, live |-> {}, tick |-> 0]
  /\ line = <<>>
  /\ bytes = <<>>
  /\ offset = 0
  /\ written = <<>>
  /\ cpc = "idle"
  /\ supported = TRUE
  /\ linked = {}
  /\ mounted = TRUE
  /\ console = [n |-> 0, tag |-> "none", phase |-> "none", line |-> <<>>]
  /\ wire = [at |-> 0, line |-> <<>>, res |-> "none", caught |-> TRUE]
  /\ cancelled = [kind |-> "none", dir |-> NULL]
  /\ query = [v |-> "none", panelId |-> NULL, sub |-> NULL, dir |-> NULL, phase |-> NULL,
              done |-> FALSE]
  /\ answer = NoPacket

TimedNext ==
  \/ \E dir \in Dirs : startHold(dir)
  \/ stopHold
  \/ advance
  \/ \E t \in timers : timedTick(t)

SpecTimed == TimedInit /\ [][TimedNext]_vars

(***************************************************************************)
(* The BLE client: link handles, WriteQueue, writeChunkSafe, sendString.   *)
(***************************************************************************)
CHUNK == 18

\* Byte lengths of the encoded, newline-terminated lines that are sent: a
\* line of exactly one chunk, and the shortest line of 2, .. MaxChunks chunks.
LineBytes == {CHUNK} \cup {CHUNK * (k - 1) + 1 : k \in 2..MaxChunks}

\* How a channel write settles: resolved, rejected with "GATT operation
\* already in progress", rejected with another error.
Outcomes == {"ok", "busy", "error"}

\* isConnected(): !!(server && server.connected && txChar)
isConnected == server # 0 /\ gatt /\ txChar # 0

\* connect() run to its end: every handle bound, notifications started,
\* handleDisconnected listening.
connect ==
  /\ ~isConnected
  /\ server' = 1
  /\ txChar' = 1
  /\ rxChar' = 1
  /\ gatt' = TRUE
  /\ listening' = TRUE
  /\ down' = FALSE
  /\ UNCHANGED <<msgs, queue, chain, tasks, inflight, calls, done>>
  /\ UNCHANGED <<conns, nconn, connecting, appSeen, lastTry, lastReq, stopping, discs>>
  /\ UNCHANGED <<dvars, hvars, cvars, pvars>>

\* The link drops and handleDisconnected runs cleanupRefs(); no subscriber is
\* registered in the specifications of the write pipeline.
handleDisconnected ==
  /\ server # 0
  /\ server' = 0
  /\ txChar' = 0
  /\ rxChar' = 0
  /\ gatt' = FALSE
  /\ down' = TRUE
  /\ UNCHANGED <<msgs, queue, chain, tasks, inflight, calls, done>>
  /\ UNCHANGED <<conns, nconn, connecting, appSeen, lastTry, lastReq, stopping, discs>>
  /\ UNCHANGED <<dvars, listening, hvars, cvars, pvars>>

Task(m, off, attempt, pc) == [m |-> m, off |-> off, attempt |-> attempt, pc |-> pc]

Call(m, off, attempt) == [m |-> m, off |-> off, attempt |-> attempt, conn |-> txChar]

\* A task that ends and leaves the promise sendString returned pending.
finishSilent(m, res) ==
  /\ tasks' = {t \in tasks : t.m # m}
  /\ done' = done

\* The task of message m ends: the promise sendString returned settles.
finish(m, res) ==
  /\ tasks' = {t \in tasks : t.m # m}
  /\ done' = Append(done, [m |-> m, res |-> res])

\* txChar.writeValueWithoutResponse(buf) / txChar.writeValue(buf) is called.
startWrite(m, off, attempt) ==
  /\ tasks' = {t \in tasks : t.m # m} \cup {Task(m, off, attempt, "writing")}
  /\ inflight' = inflight \cup {Call(m, off, attempt)}
  /\ UNCHANGED done

\* _chain.then(task): a rejected promise is passed on and the task is skipped.
thenRunsFulfilled(settled) == settled = "fulfilled"

\* WriteQueue.enqueue: _chain.then(task, task) runs the task however the
\* promise before it settled.
thenRuns(settled) == settled \in {"fulfilled", "rejected"}

\* A catch that retries the busy error of every attempt.
retriesEveryBusy(attempt, outcome) == outcome = "busy"

\* A catch that retries whatever the first attempt failed with.
retriesAnyError(attempt, outcome) == attempt = 0

\* The catch of writeChunkSafe: only the busy error of the first attempt is
\* retried.
retries(attempt, outcome) == attempt = 0 /\ outcome = "busy"

\* A writeChunkSafe without its first line: the write is called on whatever
\* txChar holds.
writeChunkUnchecked(m, off) ==
  /\ startWrite(m, off, 0)
  /\ UNCHANGED chain

\* writeChunkSafe(slice) is entered for the chunk at byte offset off.
writeChunkSafe(m, off) ==
  IF txChar = 0
  THEN /\ finish(m, "notconnected")
       /\ chain' = "rejected"
       /\ UNCHANGED inflight
  ELSE /\ startWrite(m, off, 0)
       /\ UNCHANGED chain

\* sendString(line): rejects at once when not connected, else enqueues.
sendString(len) ==
  /\ Len(msgs) < MaxMsgs
  /\ msgs' = Append(msgs, [len |-> len, enq |-> isConnected])
  /\ IF isConnected
     THEN /\ queue' = Append(queue, Len(msgs) + 1)
          /\ UNCHANGED done
     ELSE /\ done' = Append(done, [m |-> Len(msgs) + 1, res |-> "notconnected"])
          /\ UNCHANGED queue
  /\ UNCHANGED <<server, txChar, chain, tasks, inflight, calls>>
  /\ UNCHANGED <<dvars, lvars, hvars, cvars, pvars>>

\* The promise before the head of the queue has settled: its then-callback
\* runs, which is the task (for loop entered, first chunk).
runNext ==
  /\ tasks = {}
  /\ queue # <<>>
  /\ queue' = Tail(queue)
  /\ IF thenRuns(chain)
     THEN writeChunkSafe(Head(queue), 0)
     ELSE /\ finish(Head(queue), "inherited")
          /\ UNCHANGED <<chain, inflight>>
  /\ UNCHANGED <<server, txChar, msgs, calls>>
  /\ UNCHANGED <<dvars, lvars, hvars, cvars, pvars>>

\* A loop that swallows the failure of a chunk and goes on with the next one.
nextStepSwallow(attempt, off, len, outcome) ==
  IF outcome # "ok" /\ retries(attempt, outcome) THEN "retry"
  ELSE IF off + CHUNK < len THEN "pace"
  ELSE IF outcome = "ok" THEN "done" ELSE "fail"

\* What the task does when a write of a chunk settles: the catch of
\* writeChunkSafe, then the for loop of sendString.
nextStep(attempt, off, len, outcome) ==
  IF outcome = "ok"
  THEN IF off + CHUNK < len THEN "pace" ELSE "done"
  ELSE IF retries(attempt, outcome) THEN "retry" ELSE "fail"

\* The channel settles a write of the queued client.
settle(c, outcome) ==
  /\ c \in inflight
  /\ calls' = Append(calls, [m |-> c.m, off |-> c.off, attempt |-> c.attempt,
                             conn |-> c.conn, res |-> outcome])
  /\ inflight' = inflight \ {c}
  /\ LET step == nextStep(c.attempt, c.off, msgs[c.m].len, outcome) IN
     CASE step = "pace" ->
            /\ tasks' = {t \in tasks : t.m # c.m}
                          \cup {Task(c.m, c.off, c.attempt, "pacing")}
            /\ UNCHANGED <<done, chain>>
       [] step = "retry" ->
            /\ tasks' = {t \in tasks : t.m # c.m}
                          \cup {Task(c.m, c.off, c.attempt, "backoff")}
            /\ UNCHANGED <<done, chain>>
       [] step = "done" ->
            /\ finish(c.m, "ok")
            /\ chain' = "fulfilled"
       [] OTHER ->
            /\ finish(c.m, outcome)
            /\ chain' = "rejected"
  /\ UNCHANGED <<server, txChar, msgs, queue>>
  /\ UNCHANGED <<dvars, lvars, hvars, cvars, pvars>>

\* The 20 ms backoff ends: the second attempt of the same chunk. With txChar
\* cleared meanwhile the call throws a TypeError, which is not retried.
backoffEnd(t) ==
  /\ t \in tasks
  /\ t.pc = "backoff"
  /\ IF txChar = 0
     THEN /\ finish(t.m, "typeerror")
          /\ chain' = "rejected"
          /\ UNCHANGED inflight
     ELSE /\ startWrite(t.m, t.off, t.attempt + 1)
          /\ UNCHANGED chain
  /\ UNCHANGED <<server, txChar, msgs, queue, calls>>
  /\ UNCHANGED <<dvars, lvars, hvars, cvars, pvars>>

\* The 2 ms pacing delay ends: the loop goes on to the next chunk.
pacingEnd(t) ==
  /\ t \in tasks
  /\ t.pc = "pacing"
  /\ writeChunkSafe(t.m, t.off + CHUNK)
  /\ UNCHANGED <<server, txChar, msgs, queue, calls>>
  /\ UNCHANGED <<dvars, lvars, hvars, cvars, pvars>>

QueueNext ==
  \/ connect
  \/ handleDisconnected
  \/ \E len \in LineBytes : sendString(len)
  \/ runNext
  \/ \E c \in inflight, outcome \in Outcomes : settle(c, outcome)
  \/ \E t \in tasks : backoffEnd(t)
  \/ \E t \in tasks : pacingEnd(t)

\* The client after the module is loaded; the panel is not mounted.
QueueInit ==
  /\ variant = "commandBySub"
  /\ selection = "tailSpine"
  /\ subSelection = [p \in PANELS |->
                       CASE p = "legsPelvis" -> "legs" [] p = "headNeck" -> "head"
                         [] p = "tailSpine" -> "tail" [] p = "fullBody" -> "full"]
  /\ activeDir = NULL
  /\ timerRef = 0
  /\ timers = {}
  /\ connected = FALSE
  /\ log = <<>>
  /\ npress = 0
  /\ lastPress = NULL
  /\ nenv = 0
  /\ elapsed = 0
  /\ server = 0
  /\ txChar = 0
  /\ msgs = <<>>
  /\ queue = <<>>
  /\ chain = "fulfilled"
  /\ tasks = {}
  /\ inflight = {}
  /\ calls = <<>>
  /\ done = <<>>
  /\ gatt = FALSE
  /\ rxChar = 0
  /\ listening = FALSE
  /\ conns = {}
  /\ nconn = 0
  /\ connecting = FALSE
  /\ appSeen = [connecting |-> FALSE, connected |-> FALSE]
  /\ lastTry = "none"
  /\ lastReq = "none"
  /\ down = FALSE
  /\ stopping = {}
  /\ discs = <<>>
  /\ messageHandlers = <<>>
  /\ disconnectHandlers = <<>>
  /\ subs = <<>>
  /\ lastEvent = [kind |-> "none", raw |-> <<>>, arg |-> <<>>, ran |-> <<>>,
                  threw |-> FALSE, live |-> {}, tick |-> 0]
  /\ line = <<>>
  /\ bytes = <<>>
  /\ offset = 0
  /\ written = <<>>
  /\ cpc = "idle"
  /\ supported = TRUE
  /\ linked = {}
  /\ mounted = TRUE
  /\ console = [n |-> 0, tag |-> "none", phase |-> "none", line |-> <<>>]
  /\ wire = [at |-> 0, line |-> <<>>, res |-> "none", caught |-> TRUE]
  /\ cancelled = [kind |-> "none", dir |-> NULL]
  /\ query = [v |-> "none", panelId |-> NULL, sub |-> NULL, dir |-> NULL, phase |-> NULL,
              done |-> FALSE]
  /\ answer = NoPacket

SpecQueue == QueueInit /\ [][QueueNext]_vars

\* The queued client with its scheduling: the then-callback of a settled
\* promise runs (microtask), the timers of the backoff and of the pacing
\* fire, and the channel settles every write it was given.
QueueFairness ==
  /\ WF_vars(runNext)
  /\ WF_vars(\E c \in inflight, outcome \in Outcomes : settle(c, outcome))
  /\ WF_vars(\E t \in tasks : backoffEnd(t))
  /\ WF_vars(\E t \in tasks : pacingEnd(t))

SpecQueueLive == QueueInit /\ [][QueueNext]_vars /\ QueueFairness

(***************************************************************************)
(* The queued client over several Connections: every connect() that runs   *)
(* to its end binds the handles of a new Connection.                       *)
(***************************************************************************)
\* connect() run to its end, the handles bound to the Connection it made.
connectNew ==
  /\ ~isConnected
  /\ nconn < MaxConnect
  /\ nconn' = nconn + 1
  /\ server' = nconn + 1
  /\ txChar' = nconn + 1
  /\ rxChar' = nconn + 1
  /\ gatt' = TRUE
  /\ listening' = TRUE
  /\ down' = FALSE
  /\ lastTry' = "ok"
  /\ UNCHANGED <<msgs, queue, chain, tasks, inflight, calls, done>>
  /\ UNCHANGED <<conns, connecting, appSeen, lastReq, stopping, discs>>
  /\ UNCHANGED <<dvars, hvars, cvars, pvars>>

RelinkNext ==
  \/ connectNew
  \/ handleDisconnected
  \/ \E len \in LineBytes : sendString(len)
  \/ runNext
  \/ \E c \in inflight, outcome \in Outcomes : settle(c, outcome)
  \/ \E t \in tasks : backoffEnd(t)
  \/ \E t \in tasks : pacingEnd(t)

RelinkInit ==
  /\ variant = "commandBySub"
  /\ selection = "tailSpine"
  /\ subSelection = [p \in PANELS |->
                       CASE p = "legsPelvis" -> "legs" [] p = "headNeck" -> "head"
                         [] p = "tailSpine" -> "tail" [] p = "fullBody" -> "full"]
  /\ activeDir = NULL
  /\ timerRef = 0
  /\ timers = {}
  /\ connected = FALSE
  /\ log = <<>>
  /\ npress = 0
  /\ lastPress = NULL
  /\ nenv = 0
  /\ elapsed = 0
  /\ server = 0
  /\ txChar = 0
  /\ msgs = <<>>
  /\ queue = <<>>
  /\ chain = "fulfilled"
  /\ tasks = {}
  /\ inflight = {}
  /\ calls = <<>>
  /\ done = <<>>
  /\ gatt = FALSE
  /\ rxChar = 0
  /\ listening = FALSE
  /\ conns = {}
  /\ nconn = 0
  /\ connecting = FALSE
  /\ appSeen = [connecting |-> FALSE, connected |-> FALSE]
  /\ lastTry = "none"
  /\ lastReq = "none"
  /\ down = FALSE
  /\ stopping = {}
  /\ discs = <<>>
  /\ messageHandlers = <<>>
  /\ disconnectHandlers = <<>>
  /\ subs = <<>>
  /\ lastEvent = [kind |-> "none", raw |-> <<>>, arg |-> <<>>, ran |-> <<>>,
                  threw |-> FALSE, live |-> {}, tick |-> 0]
  /\ line = <<>>
  /\ bytes = <<>>
  /\ offset = 0
  /\ written = <<>>
  /\ cpc = "idle"
  /\ supported = TRUE
  /\ linked = {}
  /\ mounted = TRUE
  /\ console = [n |-> 0, tag |-> "none", phase |-> "none", line |-> <<>>]
  /\ wire = [at |-> 0, line |-> <<>>, res |-> "none", caught |-> TRUE]
  /\ cancelled = [kind |-> "none", dir |-> NULL]
  /\ query = [v |-> "none", panelId |-> NULL, sub |-> NULL, dir |-> NULL, phase |-> NULL,
              done |-> FALSE]
  /\ answer = NoPacket

SpecRelink == RelinkInit /\ [][RelinkNext]_vars


(***************************************************************************)
(* sendString of modules/ble/bleClient.js: no queue, no retry; every call  *)
(* runs its own loop of awaited rxChar.writeValue calls. (txChar is the    *)
(* write characteristic here too, whatever the file calls it.)             *)
(***************************************************************************)
sendStringDirect(len) ==
  /\ Len(msgs) < MaxMsgs
  /\ msgs' = Append(msgs, [len |-> len, enq |-> isConnected])
  /\ IF isConnected
     THEN startWrite(Len(msgs) + 1, 0, 0)
     ELSE /\ done' = Append(done, [m |-> Len(msgs) + 1, res |-> "notconnected"])
          /\ UNCHANGED <<tasks, inflight>>
  /\ UNCHANGED <<server, txChar, queue, chain, calls>>
  /\ UNCHANGED <<dvars, lvars, hvars, cvars, pvars>>

\* A write of the unqueued client settles; the loop awaits the next slice.
\* With the handles cleared meanwhile, rxChar.writeValue throws a TypeError.
settleDirect(c, outcome) ==
  /\ c \in inflight
  /\ calls' = Append(calls, [m |-> c.m, off |-> c.off, attempt |-> c.attempt,
                             conn |-> c.conn, res |-> outcome])
  /\ IF outcome # "ok"
     THEN /\ finish(c.m, outcome)
          /\ inflight' = inflight \ {c}
     ELSE IF c.off + CHUNK < msgs[c.m].len
          THEN IF txChar = 0
               THEN /\ finish(c.m, "typeerror")
                    /\ inflight' = inflight \ {c}
               ELSE /\ tasks' = {t \in tasks : t.m # c.m}
                                  \cup {Task(c.m, c.off + CHUNK, 0, "writing")}
                    /\ inflight' = (inflight \ {c}) \cup {Call(c.m, c.off + CHUNK, 0)}
                    /\ UNCHANGED done
          ELSE /\ finish(c.m, "ok")
               /\ inflight' = inflight \ {c}
  /\ UNCHANGED <<server, txChar, msgs, queue, chain>>
  /\ UNCHANGED <<dvars, lvars, hvars, cvars, pvars>>

DirectNext ==
  \/ connect
  \/ handleDisconnected
  \/ \E len \in LineBytes : sendStringDirect(len)
  \/ \E c \in inflight, outcome \in Outcomes : settleDirect(c, outcome)

\* The client after the module is loaded; the panel is not mounted.
DirectInit ==
  /\ variant = "commandBySub"
  /\ selection = "tailSpine"
  /\ subSelection = [p \in PANELS |->
                       CASE p = "legsPelvis" -> "legs" [] p = "headNeck" -> "head"
                         [] p = "tailSpine" -> "tail" [] p = "fullBody" -> "full"]
  /\ activeDir = NULL
  /\ timerRef = 0
  /\ timers = {}
  /\ connected = FALSE
  /\ log = <<>>
  /\ npress = 0
  /\ lastPress = NULL
  /\ nenv = 0
  /\ elapsed = 0
  /\ server = 0
  /\ txChar = 0
  /\ msgs = <<>>
  /\ queue = <<>>
  /\ chain = "fulfilled"
  /\ tasks = {}
  /\ inflight = {}
  /\ calls = <<>>
  /\ done = <<>>
  /\ gatt = FALSE
  /\ rxChar = 0
  /\ listening = FALSE
  /\ conns = {}
  /\ nconn = 0
  /\ connecting = FALSE
  /\ appSeen = [connecting |-> FALSE, connected |-> FALSE]
  /\ lastTry = "none"
  /\ lastReq = "none"
  /\ down = FALSE
  /\ stopping = {}
  /\ discs = <<>>
  /\ messageHandlers = <<>>
  /\ disconnectHandlers = <<>>
  /\ subs = <<>>
  /\ lastEvent = [kind |-> "none", raw |-> <<>>, arg |-> <<>>, ran |-> <<>>,
                  threw |-> FALSE, live |-> {}, tick |-> 0]
  /\ line = <<>>
  /\ bytes = <<>>
  /\ offset = 0
  /\ written = <<>>
  /\ cpc = "idle"
  /\ supported = TRUE
  /\ linked = {}
  /\ mounted = TRUE
  /\ console = [n |-> 0, tag |-> "none", phase |-> "none", line |-> <<>>]
  /\ wire = [at |-> 0, line |-> <<>>, res |-> "none", caught |-> TRUE]
  /\ cancelled = [kind |-> "none", dir |-> NULL]
  /\ query = [v |-> "none", panelId |-> NULL, sub |-> NULL, dir |-> NULL, phase |-> NULL,
              done |-> FALSE]
  /\ answer = NoPacket

SpecDirect == DirectInit /\ [][DirectNext]_vars


(***************************************************************************)
(* The link manager: the subscription registries, the inbound path         *)
(* (handleNotify), the gattserverdisconnected event and disconnect().      *)
(***************************************************************************)
\* The callbacks the subscribers pass: f returns, boom throws. "app" is the
\* closure App subscribes after a connect.
Callbacks == {"f", "boom"}

Throws(fn) == fn = "boom"

\* A registry that is a list: every add appends.
setAddList(h, fn) == Append(h, fn)

\* Set.prototype.add: a value already in the Set is not added again.
setAdd(h, fn) == IF \E i \in 1..Len(h) : h[i] = fn THEN h ELSE Append(h, fn)

\* Set.prototype.delete
setDelete(h, fn) == SelectSeq(h, LAMBDA x : x # fn)

\* The subscriptions of a kind whose unsubscribe handle was not called.
LiveSubs(kind) == {i \in 1..Len(subs) : subs[i].kind = kind /\ subs[i].live}

\* The record of an event: the payload, the argument given to the callbacks,
\* the callbacks called and the subscriptions that were live. tick tells
\* an event from the one before it.
Event(kind, raw, arg, r) ==
  [kind |-> kind, raw |-> raw, arg |-> arg, ran |-> r.ran, threw |-> r.threw,
   live |-> LiveSubs(kind), tick |-> 1 - lastEvent.tick]

\* onMessage(fn)
onMessage(fn) ==
  /\ Len(subs) < MaxSubs
  /\ messageHandlers' = setAdd(messageHandlers, fn)
  /\ subs' = Append(subs, [kind |-> "message", fn |-> fn, live |-> TRUE])
  /\ UNCHANGED <<disconnectHandlers, lastEvent>>
  /\ UNCHANGED <<dvars, qvars, lvars, cvars, pvars>>

\* onDisconnect(fn)
onDisconnect(fn) ==
  /\ Len(subs) < MaxSubs
  /\ disconnectHandlers' = setAdd(disconnectHandlers, fn)
  /\ subs' = Append(subs, [kind |-> "disconnect", fn |-> fn, live |-> TRUE])
  /\ UNCHANGED <<messageHandlers, lastEvent>>
  /\ UNCHANGED <<dvars, qvars, lvars, cvars, pvars>>

\* The handle returned by the i-th subscription is called:
\*   () => messageHandlers.delete(fn)  /  () => disconnectHandlers.delete(fn)
unsubscribe(i) ==
  /\ i \in 1..Len(subs)
  /\ subs[i].live
  /\ subs' = [subs EXCEPT ![i].live = FALSE]
  /\ IF subs[i].kind = "message"
     THEN /\ messageHandlers' = setDelete(messageHandlers, subs[i].fn)
          /\ UNCHANGED disconnectHandlers
     ELSE /\ disconnectHandlers' = setDelete(disconnectHandlers, subs[i].fn)
          /\ UNCHANGED messageHandlers
  /\ UNCHANGED lastEvent
  /\ UNCHANGED <<dvars, qvars, lvars, cvars, pvars>>

FirstThrow(h) ==
  IF \E i \in 1..Len(h) : Throws(h[i])
  THEN CHOOSE i \in 1..Len(h) : Throws(h[i]) /\ \A j \in 1..(i - 1) : ~Throws(h[j])
  ELSE 0

\* A fan-out loop without the try / catch: the first throw ends it.
runHandlersBare(h) ==
  IF FirstThrow(h) = 0 THEN [ran |-> h, threw |-> FALSE]
  ELSE [ran |-> SubSeq(h, 1, FirstThrow(h)), threw |-> TRUE]

\* for (const fn of handlers) { try { fn(...) } catch {} }: the callbacks that
\* are called, in order, and whether an exception leaves the loop.
runHandlers(h) == [ran |-> h, threw |-> FALSE]

\* Notification payloads: blanks only, a padded "ok", a two-byte character.
Payloads == {<<32, 10>>, <<32, 111, 107, 13, 10>>, <<195, 169, 32>>}

RECURSIVE decode(_)
\* new TextDecoder().decode(dv): UTF-8, up to two-byte sequences.
decode(b) ==
  IF b = <<>> THEN <<>>
  ELSE IF b[1] < 128 THEN <<b[1]>> \o decode(Tail(b))
  ELSE IF b[1] \in 192..223 /\ Len(b) >= 2 /\ b[2] \in 128..191
       THEN <<(b[1] - 192) * 64 + (b[2] - 128)>> \o decode(SubSeq(b, 3, Len(b)))
  ELSE <<65533>> \o decode(Tail(b))

isSpace(c) == c \in {9, 10, 11, 12, 13, 32}

RECURSIVE trimStart(_)
trimStart(str) ==
  IF str # <<>> /\ isSpace(Head(str)) THEN trimStart(Tail(str)) ELSE str

RECURSIVE trimEnd(_)
trimEnd(str) ==
  IF str # <<>> /\ isSpace(str[Len(str)])
  THEN trimEnd(SubSeq(str, 1, Len(str) - 1)) ELSE str

\* String.prototype.trim
trim(str) == trimEnd(trimStart(str))

\* handleNotify(e): characteristicvaluechanged on the notify characteristic.
handleNotify(payload) ==
  /\ isConnected
  /\ rxChar # 0
  /\ LET text == trim(decode(payload))
         r    == runHandlers(messageHandlers)
     IN lastEvent' = Event("message", payload, text, r)
  /\ UNCHANGED <<messageHandlers, disconnectHandlers, subs>>
  /\ UNCHANGED <<dvars, qvars, lvars, cvars, pvars>>

\* cleanupRefs()
cleanupRefs ==
  /\ server' = 0
  /\ txChar' = 0
  /\ rxChar' = 0

\* handleDisconnected(): the fan-out to disconnectHandlers, then cleanupRefs().
\* The closure of App calls setConnected(false).
onGattServerDisconnected ==
  LET r == runHandlers(disconnectHandlers) IN
  /\ lastEvent' = Event("disconnect", <<>>, <<>>, r)
  /\ connected' = IF \E i \in 1..Len(r.ran) : r.ran[i] = "app" THEN FALSE ELSE connected
  /\ IF r.threw THEN UNCHANGED <<server, txChar, rxChar>> ELSE cleanupRefs

\* The peer drops the link: server.connected turns false and the platform
\* dispatches gattserverdisconnected to the listeners of the device.
gattserverdisconnected ==
  /\ gatt
  /\ gatt' = FALSE
  /\ IF listening
     THEN /\ onGattServerDisconnected
          /\ down' = TRUE
     ELSE UNCHANGED <<server, txChar, rxChar, lastEvent, connected, down>>
  /\ UNCHANGED <<variant, selection, subSelection, activeDir, timerRef, timers, log,
                 npress, lastPress, nenv, elapsed>>
  /\ UNCHANGED <<msgs, queue, chain, tasks, inflight, calls, done>>
  /\ UNCHANGED <<listening, conns, nconn, connecting, appSeen, lastTry, lastReq,
                 stopping, discs>>
  /\ UNCHANGED <<messageHandlers, disconnectHandlers, subs>>
  /\ UNCHANGED <<cvars, pvars>>

\* A disconnect() whose try blocks have no catch.
tryOnly(outcome) == IF outcome = "throws" THEN "raised" ELSE "ok"

\* try { await ... } catch {}: what the caller of disconnect() sees.
tryCatch(outcome) == "ok"

\* disconnect() from  try { await server?.disconnect() } catch {}  on:
\* server.disconnect() drops a live link, and the platform dispatches
\* gattserverdisconnected inside the call; then cleanupRefs(). Called by
\* disconnectBLE of App, its finally block follows.
disconnectTail(d, outcome) ==
  LET drops == server # 0 /\ gatt /\ outcome = "ok"
      r     == IF drops /\ listening THEN runHandlers(disconnectHandlers)
               ELSE [ran |-> <<>>, threw |-> FALSE]
      res   == tryCatch(outcome)
  IN
  /\ gatt' = IF drops THEN FALSE ELSE gatt
  /\ lastEvent' = IF drops /\ listening THEN Event("disconnect", <<>>, <<>>, r)
                   ELSE lastEvent
  /\ IF res = "ok" THEN cleanupRefs ELSE UNCHANGED <<server, txChar, rxChar>>
  /\ discs' = Append(discs, [id |-> d.id, by |-> d.by, res |-> res])
  /\ connected' = IF d.by = "app" \/ \E i \in 1..Len(r.ran) : r.ran[i] = "app"
                  THEN FALSE ELSE connected
  /\ messageHandlers' = IF d.by = "app" THEN setDelete(messageHandlers, "app")
                        ELSE messageHandlers
  /\ disconnectHandlers' = IF d.by = "app" THEN setDelete(disconnectHandlers, "app")
                           ELSE disconnectHandlers
  /\ UNCHANGED <<variant, selection, subSelection, activeDir, timerRef, timers, log,
                 npress, lastPress, nenv, elapsed>>
  /\ UNCHANGED <<msgs, queue, chain, tasks, inflight, calls, done>>
  /\ UNCHANGED <<listening, conns, nconn, connecting, appSeen, lastTry, lastReq, down>>
  /\ UNCHANGED subs
  /\ UNCHANGED <<cvars, pvars>>

\* disconnect() is called, by the Disconnect button of App ("app") or
\* directly ("api"). With no notify characteristic bound there is nothing to
\* wait for; else the call waits for stopNotifications().
disconnect(by, outcome) ==
  /\ Len(discs) + Cardinality(stopping) < MaxDisc
  /\ by = "app" => appSeen.connected
  /\ LET d == [id |-> Len(discs) + Cardinality(stopping) + 1, by |-> by] IN
     IF rxChar = 0
     THEN /\ disconnectTail(d, outcome)
          /\ UNCHANGED stopping
     ELSE /\ stopping' = stopping \cup {d}
          /\ UNCHANGED <<dvars, qvars, hvars, cvars, pvars>>
          /\ UNCHANGED <<gatt, rxChar, listening, conns, nconn, connecting, appSeen,
                         lastTry, lastReq, down, discs>>

\* stopNotifications() has settled, either way: disconnect() goes on.
disconnectResume(d, outcome) ==
  /\ d \in stopping
  /\ stopping' = stopping \ {d}
  /\ disconnectTail(d, outcome)

DiscOutcomes == {"ok", "throws"}

SubsNext ==
  \/ connect
  \/ gattserverdisconnected
  \/ \E outcome \in DiscOutcomes : disconnect("api", outcome)
  \/ \E d \in stopping, outcome \in DiscOutcomes : disconnectResume(d, outcome)
  \/ \E fn \in Callbacks : onMessage(fn)
  \/ \E fn \in Callbacks : onDisconnect(fn)
  \/ \E i \in 1..Len(subs) : unsubscribe(i)
  \/ \E payload \in Payloads : handleNotify(payload)

\* The client after the module is loaded.
SubsInit ==
  /\ variant = "commandBySub"
  /\ selection = "tailSpine"
  /\ subSelection = [p \in PANELS |->
                       CASE p = "legsPelvis" -> "legs" [] p = "headNeck" -> "head"
                         [] p = "tailSpine" -> "tail" [] p = "fullBody" -> "full"]
  /\ activeDir = NULL
  /\ timerRef = 0
  /\ timers = {}
  /\ connected = FALSE
  /\ log = <<>>
  /\ npress = 0
  /\ lastPress = NULL
  /\ nenv = 0
  /\ elapsed = 0
  /\ server = 0
  /\ txChar = 0
  /\ msgs = <<>>
  /\ queue = <<>>
  /\ chain = "fulfilled"
  /\ tasks = {}
  /\ inflight = {}
  /\ calls = <<>>
  /\ done = <<>>
  /\ gatt = FALSE
  /\ rxChar = 0
  /\ listening = FALSE
  /\ conns = {}
  /\ nconn = 0
  /\ connecting = FALSE
  /\ appSeen = [connecting |-> FALSE, connected |-> FALSE]
  /\ lastTry = "none"
  /\ lastReq = "none"
  /\ down = FALSE
  /\ stopping = {}
  /\ discs = <<>>
  /\ messageHandlers = <<>>
  /\ disconnectHandlers = <<>>
  /\ subs = <<>>
  /\ lastEvent = [kind |-> "none", raw |-> <<>>, arg |-> <<>>, ran |-> <<>>,
                  threw |-> FALSE, live |-> {}, tick |-> 0]
  /\ line = <<>>
  /\ bytes = <<>>
  /\ offset = 0
  /\ written = <<>>
  /\ cpc = "idle"
  /\ supported = TRUE
  /\ linked = {}
  /\ mounted = TRUE
  /\ console = [n |-> 0, tag |-> "none", phase |-> "none", line |-> <<>>]
  /\ wire = [at |-> 0, line |-> <<>>, res |-> "none", caught |-> TRUE]
  /\ cancelled = [kind |-> "none", dir |-> NULL]
  /\ query = [v |-> "none", panelId |-> NULL, sub |-> NULL, dir |-> NULL, phase |-> NULL,
              done |-> FALSE]
  /\ answer = NoPacket

SpecSubs == SubsInit /\ [][SubsNext]_vars

(***************************************************************************)
(* App and connect(): the Connect button, connectBLE, and connect() one    *)
(* awaited platform call at a time.                                        *)
(***************************************************************************)
\* The awaits of connect(), in order.
ConnectPcs == <<"requestDevice", "gattConnect", "getPrimaryService",
                "getWriteChar", "getNotifyChar", "startNotifications">>

NextPc(pc) == ConnectPcs[1 + CHOOSE k \in 1..(Len(ConnectPcs) - 1) : ConnectPcs[k] = pc]

\* A click on the Connect button, which the last render shows and enables:
\* connectBLE of that render runs up to the first await inside connect().
connectBLE ==
  /\ nconn < MaxConnect
  /\ ~appSeen.connected
  /\ ~appSeen.connecting
  /\ nconn' = nconn + 1
  /\ IF appSeen.connecting \/ isConnected
     THEN /\ lastReq' = "skipped"
          /\ UNCHANGED <<connecting, conns>>
     ELSE /\ lastReq' = "started"
          /\ connecting' = TRUE
          /\ conns' = conns \cup {[id |-> nconn + 1, pc |-> "requestDevice"]}
  /\ UNCHANGED <<gatt, rxChar, listening, appSeen, lastTry, down, stopping, discs>>
  /\ UNCHANGED <<dvars, qvars, hvars, cvars, pvars>>

\* React commits the pending state updates: the button and the closures of
\* the new render see them.
renderApp ==
  /\ appSeen # [connecting |-> connecting, connected |-> connected]
  /\ appSeen' = [connecting |-> connecting, connected |-> connected]
  /\ UNCHANGED <<gatt, rxChar, listening, conns, nconn, connecting, lastTry, lastReq,
                 down, stopping, discs>>
  /\ UNCHANGED <<dvars, qvars, hvars, cvars, pvars>>

\* What the platform needs to resolve the call connect() is waiting for: the
\* lookups go through the module's server / service, startNotifications
\* through the notify characteristic, all on a connected GATT server.
canResolve(pc) ==
  CASE pc \in {"getPrimaryService", "getWriteChar", "getNotifyChar"} -> gatt /\ server # 0
    [] pc = "startNotifications" -> gatt /\ rxChar # 0
    [] OTHER -> TRUE

\* The call that connect() number c.id awaits settles. Resolved: the handle
\* is stored and connect() goes on to the next call; after startNotifications
\* the listeners are added, connect() returns and connectBLE sets connected
\* and subscribes its closures. Rejected: connect() throws, connectBLE logs.
\* Either way the finally block of connectBLE sets connecting to false.
connectStep(c, ok) ==
  LET last == c.pc = "startNotifications"
      ends == ~ok \/ last
      good == ok /\ last
  IN
  /\ c \in conns
  /\ ok => canResolve(c.pc)
  /\ conns' = IF ends THEN conns \ {c}
              ELSE (conns \ {c}) \cup {[c EXCEPT !.pc = NextPc(c.pc)]}
  /\ server' = IF ok /\ c.pc = "gattConnect" THEN c.id ELSE server
  /\ gatt' = IF ok /\ c.pc = "gattConnect" THEN TRUE ELSE gatt
  /\ txChar' = IF ok /\ c.pc = "getWriteChar" THEN c.id ELSE txChar
  /\ rxChar' = IF ok /\ c.pc = "getNotifyChar" THEN c.id ELSE rxChar
  /\ listening' = (listening \/ good)
  /\ connecting' = IF ends THEN FALSE ELSE connecting
  /\ connected' = IF good THEN TRUE ELSE connected
  /\ lastTry' = IF ~ends THEN lastTry ELSE IF ok THEN "ok" ELSE "failed"
  /\ down' = IF good THEN FALSE ELSE down
  /\ messageHandlers' = IF good THEN setAdd(setDelete(messageHandlers, "app"), "app")
                        ELSE messageHandlers
  /\ disconnectHandlers' = IF good THEN setAdd(setDelete(disconnectHandlers, "app"), "app")
                           ELSE disconnectHandlers
  /\ UNCHANGED <<variant, selection, subSelection, activeDir, timerRef, timers, log,
                 npress, lastPress, nenv, elapsed>>
  /\ UNCHANGED <<msgs, queue, chain, tasks, inflight, calls, done>>
  /\ UNCHANGED <<nconn, appSeen, lastReq, stopping, discs>>
  /\ UNCHANGED <<subs, lastEvent>>
  /\ UNCHANGED <<cvars, pvars>>

Callers == {"app", "api"}

\* React (createRoot) commits the updates of a handler in a microtask at the
\* end of the task that ran it: whatever runs in a later task finds them
\* committed. Only a second click handler in the same task does not.
Committed == appSeen = [connecting |-> connecting, connected |-> connected]

LinkNext ==
  \/ connectBLE
  \/ renderApp
  \/ /\ Committed
     /\ \/ \E c \in conns, ok \in BOOLEAN : connectStep(c, ok)
        \/ gattserverdisconnected
        \/ \E by \in Callers, outcome \in DiscOutcomes : disconnect(by, outcome)
        \/ \E d \in stopping, outcome \in DiscOutcomes : disconnectResume(d, outcome)
        \/ sendStringDirect(CHUNK)
        \/ \E c \in inflight, outcome \in Outcomes : settleDirect(c, outcome)

\* App is mounted, the client module is loaded, nothing is connected.
LinkInit ==
  /\ variant = "commandBySub"
  /\ selection = "tailSpine"
  /\ subSelection = [p \in PANELS |->
                       CASE p = "legsPelvis" -> "legs" [] p = "headNeck" -> "head"
                         [] p = "tailSpine" -> "tail" [] p = "fullBody" -> "full"]
  /\ activeDir = NULL
  /\ timerRef = 0
  /\ timers = {}
  /\ connected = FALSE
  /\ log = <<>>
  /\ npress = 0
  /\ lastPress = NULL
  /\ nenv = 0
  /\ elapsed = 0
  /\ server = 0
  /\ txChar = 0
  /\ msgs = <<>>
  /\ queue = <<>>
  /\ chain = "fulfilled"
  /\ tasks = {}
  /\ inflight = {}
  /\ calls = <<>>
  /\ done = <<>>
  /\ gatt = FALSE
  /\ rxChar = 0
  /\ listening = FALSE
  /\ conns = {}
  /\ nconn = 0
  /\ connecting = FALSE
  /\ appSeen = [connecting |-> FALSE, connected |-> FALSE]
  /\ lastTry = "none"
  /\ lastReq = "none"
  /\ down = FALSE
  /\ stopping = {}
  /\ discs = <<>>
  /\ messageHandlers = <<>>
  /\ disconnectHandlers = <<>>
  /\ subs = <<>>
  /\ lastEvent = [kind |-> "none", raw |-> <<>>, arg |-> <<>>, ran |-> <<>>,
                  threw |-> FALSE, live |-> {}, tick |-> 0]
  /\ line = <<>>
  /\ bytes = <<>>
  /\ offset = 0
  /\ written = <<>>
  /\ cpc = "idle"
  /\ supported = TRUE
  /\ linked = {}
  /\ mounted = TRUE
  /\ console = [n |-> 0, tag |-> "none", phase |-> "none", line |-> <<>>]
  /\ wire = [at |-> 0, line |-> <<>>, res |-> "none", caught |-> TRUE]
  /\ cancelled = [kind |-> "none", dir |-> NULL]
  /\ query = [v |-> "none", panelId |-> NULL, sub |-> NULL, dir |-> NULL, phase |-> NULL,
              done |-> FALSE]
  /\ answer = NoPacket

SpecLink == LinkInit /\ [][LinkNext]_vars

(***************************************************************************)
(* connect() called on the client directly, on a platform with or without  *)
(* Web Bluetooth.                                                          *)
(***************************************************************************)
\* A connect() that goes on to discovery whatever the platform.
hasBluetoothAssumed == TRUE

\* navigator.bluetooth, as the first line of connect() tests it.
hasBluetooth == supported

\* How a connect() that got to discovery ends: every await resolved, or the
\* chooser of requestDevice dismissed.
ConnectEnds == {"ok", "cancelled"}

\* connect() called and run to its end. Without navigator.bluetooth it throws
\* before requestDevice; a dismissed chooser rejects with nothing bound.
connectCall(end) ==
  /\ nconn < MaxConnect
  /\ nconn' = nconn + 1
  /\ IF ~hasBluetooth
     THEN /\ lastTry' = "unsupported"
          /\ UNCHANGED <<server, txChar, rxChar, gatt, listening, down, lastReq>>
     ELSE /\ lastReq' = "started"
          /\ IF end = "ok"
             THEN /\ server' = nconn + 1
                  /\ txChar' = nconn + 1
                  /\ rxChar' = nconn + 1
                  /\ gatt' = TRUE
                  /\ listening' = TRUE
                  /\ down' = FALSE
                  /\ lastTry' = "ok"
             ELSE /\ lastTry' = "failed"
                  /\ UNCHANGED <<server, txChar, rxChar, gatt, listening, down>>
  /\ UNCHANGED <<msgs, queue, chain, tasks, inflight, calls, done>>
  /\ UNCHANGED <<conns, connecting, appSeen, stopping, discs>>
  /\ UNCHANGED <<dvars, hvars, cvars, pvars>>

PlatformNext ==
  \/ \E end \in ConnectEnds : connectCall(end)
  \/ gattserverdisconnected
  \/ \E fn \in Callbacks : onMessage(fn)
  \/ \E fn \in Callbacks : onDisconnect(fn)
  \/ \E i \in 1..Len(subs) : unsubscribe(i)

\* The client module is loaded, in a browser with or without Web Bluetooth.
PlatformInit ==
  /\ variant = "commandBySub"
  /\ selection = "tailSpine"
  /\ subSelection = [p \in PANELS |->
                       CASE p = "legsPelvis" -> "legs" [] p = "headNeck" -> "head"
                         [] p = "tailSpine" -> "tail" [] p = "fullBody" -> "full"]
  /\ activeDir = NULL
  /\ timerRef = 0
  /\ timers = {}
  /\ connected = FALSE
  /\ log = <<>>
  /\ npress = 0
  /\ lastPress = NULL
  /\ nenv = 0
  /\ elapsed = 0
  /\ server = 0
  /\ txChar = 0
  /\ msgs = <<>>
  /\ queue = <<>>
  /\ chain = "fulfilled"
  /\ tasks = {}
  /\ inflight = {}
  /\ calls = <<>>
  /\ done = <<>>
  /\ gatt = FALSE
  /\ rxChar = 0
  /\ listening = FALSE
  /\ conns = {}
  /\ nconn = 0
  /\ connecting = FALSE
  /\ appSeen = [connecting |-> FALSE, connected |-> FALSE]
  /\ lastTry = "none"
  /\ lastReq = "none"
  /\ down = FALSE
  /\ stopping = {}
  /\ discs = <<>>
  /\ messageHandlers = <<>>
  /\ disconnectHandlers = <<>>
  /\ subs = <<>>
  /\ lastEvent = [kind |-> "none", raw |-> <<>>, arg |-> <<>>, ran |-> <<>>,
                  threw |-> FALSE, live |-> {}, tick |-> 0]
  /\ line = <<>>
  /\ bytes = <<>>
  /\ offset = 0
  /\ written = <<>>
  /\ cpc = "idle"
  /\ supported \in BOOLEAN
  /\ linked = {}
  /\ mounted = TRUE
  /\ console = [n |-> 0, tag |-> "none", phase |-> "none", line |-> <<>>]
  /\ wire = [at |-> 0, line |-> <<>>, res |-> "none", caught |-> TRUE]
  /\ cancelled = [kind |-> "none", dir |-> NULL]
  /\ query = [v |-> "none", panelId |-> NULL, sub |-> NULL, dir |-> NULL, phase |-> NULL,
              done |-> FALSE]
  /\ answer = NoPacket

SpecPlatform == PlatformInit /\ [][PlatformNext]_vars

(***************************************************************************)
(* connect() called again with another device selected: every device that  *)
(* a completed connect() selected keeps its GATT link and its              *)
(* gattserverdisconnected listener until its own link drops.               *)
(***************************************************************************)
\* connect() called and run to its end with a device not selected before:
\* the module variables are overwritten with the handles of the new
\* Connection, and handleDisconnected is added to the new device. Nothing is
\* removed from the device selected before and its link is not closed.
connectDevice ==
  /\ nconn < MaxConnect
  /\ nconn' = nconn + 1
  /\ server' = nconn + 1
  /\ txChar' = nconn + 1
  /\ rxChar' = nconn + 1
  /\ gatt' = TRUE
  /\ listening' = TRUE
  /\ linked' = linked \cup {nconn + 1}
  /\ down' = FALSE
  /\ lastTry' = "ok"
  /\ lastReq' = "started"
  /\ UNCHANGED <<msgs, queue, chain, tasks, inflight, calls, done>>
  /\ UNCHANGED <<conns, connecting, appSeen, stopping, discs>>
  /\ UNCHANGED <<supported, mounted, console, wire, cancelled, query, answer>>
  /\ UNCHANGED <<dvars, hvars, cvars>>

\* The link of device d drops: the platform dispatches gattserverdisconnected
\* to the listener of d, which is handleDisconnected.
deviceDisconnected(d) ==
  /\ d \in linked
  /\ linked' = linked \ {d}
  /\ gatt' = IF d = server THEN FALSE ELSE gatt
  /\ onGattServerDisconnected
  /\ down' = TRUE
  /\ UNCHANGED <<variant, selection, subSelection, activeDir, timerRef, timers, log,
                 npress, lastPress, nenv, elapsed>>
  /\ UNCHANGED <<msgs, queue, chain, tasks, inflight, calls, done>>
  /\ UNCHANGED <<listening, conns, nconn, connecting, appSeen, lastTry, lastReq,
                 stopping, discs>>
  /\ UNCHANGED <<messageHandlers, disconnectHandlers, subs>>
  /\ UNCHANGED <<supported, mounted, console, wire, cancelled, query, answer>>
  /\ UNCHANGED cvars

DevicesNext ==
  \/ connectDevice
  \/ \E d \in linked : deviceDisconnected(d)
  \/ \E fn \in Callbacks : onMessage(fn)
  \/ \E fn \in Callbacks : onDisconnect(fn)
  \/ \E i \in 1..Len(subs) : unsubscribe(i)

DevicesInit ==
  /\ variant = "commandBySub"
  /\ selection = "tailSpine"
  /\ subSelection = [p \in PANELS |->
                       CASE p = "legsPelvis" -> "legs" [] p = "headNeck" -> "head"
                         [] p = "tailSpine" -> "tail" [] p = "fullBody" -> "full"]
  /\ activeDir = NULL
  /\ timerRef = 0
  /\ timers = {}
  /\ connected = FALSE
  /\ log = <<>>
  /\ npress = 0
  /\ lastPress = NULL
  /\ nenv = 0
  /\ elapsed = 0
  /\ server = 0
  /\ txChar = 0
  /\ msgs = <<>>
  /\ queue = <<>>
  /\ chain = "fulfilled"
  /\ tasks = {}
  /\ inflight = {}
  /\ calls = <<>>
  /\ done = <<>>
  /\ gatt = FALSE
  /\ rxChar = 0
  /\ listening = FALSE
  /\ conns = {}
  /\ nconn = 0
  /\ connecting = FALSE
  /\ appSeen = [connecting |-> FALSE, connected |-> FALSE]
  /\ lastTry = "none"
  /\ lastReq = "none"
  /\ down = FALSE
  /\ stopping = {}
  /\ discs = <<>>
  /\ messageHandlers = <<>>
  /\ disconnectHandlers = <<>>
  /\ subs = <<>>
  /\ lastEvent = [kind |-> "none", raw |-> <<>>, arg |-> <<>>, ran |-> <<>>,
                  threw |-> FALSE, live |-> {}, tick |-> 0]
  /\ line = <<>>
  /\ bytes = <<>>
  /\ offset = 0
  /\ written = <<>>
  /\ cpc = "idle"
  /\ supported = TRUE
  /\ linked = {}
  /\ mounted = TRUE
  /\ console = [n |-> 0, tag |-> "none", phase |-> "none", line |-> <<>>]
  /\ wire = [at |-> 0, line |-> <<>>, res |-> "none", caught |-> TRUE]
  /\ cancelled = [kind |-> "none", dir |-> NULL]
  /\ query = [v |-> "none", panelId |-> NULL, sub |-> NULL, dir |-> NULL, phase |-> NULL,
              done |-> FALSE]
  /\ answer = NoPacket

SpecDevices == DevicesInit /\ [][DevicesNext]_vars

(***************************************************************************)
(* The panel with its console and its transport: logTx / console.log,      *)
(* sendOverBLE, sendCommand, the cancel listeners and the teardown.        *)
(***************************************************************************)
MaxGesture == 3

\* JSON.stringify of an object: its fields and values in insertion order.
\* buildLine: JSON.stringify({ target, command, phase }).
buildLine(target, command, phase) ==
  << <<"target", target>>, <<"command", command>>, <<"phase", phase>> >>

\* sendControl(target, part, command, phase): sendJson of the four fields.
sendControl(target, part, command, phase) ==
  << <<"target", target>>, <<"part", part>>, <<"command", command>>, <<"phase", phase>> >>

\* sendCommand(target, direction, phase): the shim sendOverBLE calls first.
sendCommand(target, direction, phase) == sendControl(target, "full", direction, phase)

\* The fields of an ESP packet, as console.log prints them and as
\* JSON.stringify(pkt) writes them: cmd, and level when it is defined.
pktLine(pkt) ==
  IF pkt.level = "none" THEN << <<"cmd", pkt.cmd>> >>
  ELSE << <<"cmd", pkt.cmd>>, <<"level", pkt.level>> >>

\* A panel that resolves every phase as it resolves start.
packetOfStart(v, panelId, sub, dir, phase) ==
  IF v = "commandBySub" THEN CmdPacket(resolveCommand(panelId, sub, dir))
  ELSE buildEspPacket(panelId, sub, dir, "start")

\* What startHold and stopHold resolve for a phase: the command string of
\* commandBySub, or the packet of buildEspPacket.
packetOf(v, panelId, sub, dir, phase) ==
  IF v = "commandBySub" THEN CmdPacket(resolveCommand(panelId, sub, dir))
  ELSE buildEspPacket(panelId, sub, dir, phase)

\* The interval callback of the packet build: buildEspPacket(.., "hold") || pkt.
holdPacket(v, panelId, sub, dir) ==
  IF v = "buildEspPacket" /\ buildEspPacket(panelId, sub, dir, "hold") = NoPacket
  THEN packetOf(v, panelId, sub, dir, "start")
  ELSE packetOf(v, panelId, sub, dir, "hold")

\* The console line of a packet: logTx prints [TX] or [TX PREVIEW] and the
\* line of buildLine; the packet build prints [CMD phase] and the packet.
consoleLine(v, target, pkt, phase, conn) ==
  IF v = "commandBySub"
  THEN [n |-> Len(log) + 1, tag |-> IF conn THEN "TX" ELSE "TX PREVIEW",
        phase |-> phase, line |-> buildLine(target, pkt.cmd, phase)]
  ELSE [n |-> Len(log) + 1, tag |-> "CMD", phase |-> phase, line |-> pktLine(pkt)]

\* The line sendOverBLE hands to the client: sendCommand(target, command,
\* phase) in ControllerPanel.js, sendJson(pkt) in the packet build.
wireLine(v, target, pkt, phase) ==
  IF v = "commandBySub" THEN sendCommand(target, pkt.cmd, phase) ELSE pktLine(pkt)

\* sendOverBLE of ControllerPanel.js awaits the send inside try / catch; the
\* packet build returns the promise of the send without awaiting it, so its
\* catch never sees a rejection.
catches(v) == v = "commandBySub"

\* How a send can end: sendString throws "Not connected" when isConnected()
\* is false; else the write is handed to the characteristic, and settles.
SendResults == IF isConnected THEN {"written", "error"} ELSE {"notconnected"}

\* A panel that calls sendOverBLE whatever connected is.
transmitsAlways(conn) == TRUE

\* if (connected) sendOverBLE(...)
transmits(conn) == conn

\* logTx / console.log, then  if (connected) sendOverBLE(...)  which is not
\* awaited: the send has ended with res.
logAndSend(target, sub, dir, pkt, phase, conn, res) ==
  /\ log' = Append(log, Packet(phase, target, sub, dir, conn))
  /\ console' = consoleLine(variant, target, pkt, phase, conn)
  /\ wire' = IF transmits(conn)
             THEN [at |-> Len(log) + 1,
                   line |-> wireLine(variant, target, pkt, phase),
                   res |-> res,
                   caught |-> catches(variant)]
             ELSE wire

\* Arrow onMouseDown / onTouchStart: startHold(dir), with the render and
\* effect pass that follows setActiveDir.
onMouseDown(dir, res) ==
  /\ mounted
  /\ npress < MaxGesture
  /\ npress' = npress + 1
  /\ lastPress' = dir
  /\ IF pressGate(variant, selection, currentSub, dir)
     THEN LET id == npress + 1
              t  == [id |-> id, target |-> selection, sub |-> currentSub,
                     dir |-> dir, conn |-> connected, due |-> repeatUnits]
          IN /\ activeDir' = dir
             /\ logAndSend(selection, currentSub, dir,
                           packetOf(variant, selection, currentSub, dir, "start"),
                           "start", connected, res)
             /\ timerRef' = id
             /\ timers' = effectCleanup(<<activeDir>>, <<dir>>, id, timers \cup {t})
             /\ elapsed' = 0
     ELSE UNCHANGED <<activeDir, log, console, wire, timerRef, timers, elapsed>>
  /\ UNCHANGED <<variant, selection, subSelection, connected, nenv>>
  /\ UNCHANGED <<supported, linked, mounted, cancelled, query, answer>>
  /\ UNCHANGED <<qvars, lvars, hvars, cvars>>

\* The window listener of mouseup, touchend and touchcancel: stopHold().
cancel(res) ==
  /\ mounted
  /\ timers' = disarm(timerRef, timers)
  /\ timerRef' = 0
  /\ IF activeDir # NULL /\ hasPacket(variant, selection, currentSub, activeDir, "stop")
     THEN logAndSend(selection, currentSub, activeDir,
                     packetOf(variant, selection, currentSub, activeDir, "stop"),
                     "stop", connected, res)
     ELSE UNCHANGED <<log, console, wire>>
  /\ activeDir' = NULL
  /\ elapsed' = 0
  /\ UNCHANGED <<variant, selection, subSelection, connected, npress, lastPress, nenv>>
  /\ UNCHANGED <<supported, linked, mounted, cancelled, query, answer>>
  /\ UNCHANGED <<qvars, lvars, hvars, cvars>>

\* The callback of an armed interval: it logs and sends from its closure.
intervalCallback(t, res) ==
  /\ t \in timers
  /\ Len(log) < MaxLog
  /\ logAndSend(t.target, t.sub, t.dir, holdPacket(variant, t.target, t.sub, t.dir),
                "hold", t.conn, res)
  /\ UNCHANGED <<variant, selection, subSelection, activeDir, timerRef, timers,
                 connected, npress, lastPress, nenv, elapsed>>
  /\ UNCHANGED <<supported, linked, mounted, cancelled, query, answer>>
  /\ UNCHANGED <<qvars, lvars, hvars, cvars>>

\* The events the panel has no listener for.
SurfaceEvents == {"mouseleave", "blur"}

\* The pointer leaves the arrow, or the window loses focus, while a
\* direction is held: nothing of the panel listens, nothing runs.
surfaceEvent(kind) ==
  /\ mounted
  /\ activeDir # NULL
  /\ cancelled' = [kind |-> kind, dir |-> activeDir]
  /\ UNCHANGED <<supported, linked, mounted, console, wire, query, answer>>
  /\ UNCHANGED <<dvars, qvars, lvars, hvars, cvars>>

\* The panel is unmounted: the cleanup of the effect removes the window
\* listeners and clears the interval timerRef.current names.
unmount ==
  /\ mounted
  /\ mounted' = FALSE
  /\ timers' = {t \in timers : t.id # timerRef}
  /\ cancelled' = [kind |-> "unmount", dir |-> activeDir]
  /\ UNCHANGED <<variant, selection, subSelection, activeDir, timerRef,
                 connected, log, npress, lastPress, nenv, elapsed>>
  /\ UNCHANGED <<supported, linked, console, wire, query, answer>>
  /\ UNCHANGED <<qvars, lvars, hvars, cvars>>

\* The arrows the render enables: disabled={!allowed}.
EnabledArrows == {dir \in Dirs : isAllowed(selection, currentSub, dir)}

\* The panel through one session of the link: the peer may drop it, and App
\* renders the connected prop after that (setConnected in its onDisconnect
\* callback).
PanelNext ==
  \/ \E dir \in EnabledArrows, res \in SendResults : onMouseDown(dir, res)
  \/ \E res \in SendResults : cancel(res)
  \/ \E t \in timers, res \in SendResults : intervalCallback(t, res)
  \/ \E kind \in SurfaceEvents : surfaceEvent(kind)
  \/ unmount
  \/ handleDisconnected
  \/ mounted /\ setConnected(isConnected)

\* The panel is mounted under App, with the link up or not.
PanelInit ==
  /\ variant \in Variants
  /\ selection = "tailSpine"
  /\ subSelection = [p \in PANELS |->
                       CASE p = "legsPelvis" -> "legs" [] p = "headNeck" -> "head"
                         [] p = "tailSpine" -> "tail" [] p = "fullBody" -> "full"]
  /\ activeDir = NULL
  /\ timerRef = 0
  /\ timers = {}
  /\ connected \in BOOLEAN
  /\ log = <<>>
  /\ npress = 0
  /\ lastPress = NULL
  /\ nenv = 0
  /\ elapsed = 0
  /\ server = IF connected THEN 1 ELSE 0
  /\ txChar = IF connected THEN 1 ELSE 0
  /\ msgs = <<>>
  /\ queue = <<>>
  /\ chain = "fulfilled"
  /\ tasks = {}
  /\ inflight = {}
  /\ calls = <<>>
  /\ done = <<>>
  /\ gatt = connected
  /\ rxChar = IF connected THEN 1 ELSE 0
  /\ listening = connected
  /\ conns = {}
  /\ nconn = 0
  /\ connecting = FALSE
  /\ appSeen = [connecting |-> FALSE, connected |-> connected]
  /\ lastTry = IF connected THEN "ok" ELSE "none"
  /\ lastReq = "none"
  /\ down = FALSE
  /\ stopping = {}
  /\ discs = <<>>
  /\ messageHandlers = <<>>
  /\ disconnectHandlers = <<>>
  /\ subs = <<>>
  /\ lastEvent = [kind |-> "none", raw |-> <<>>, arg |-> <<>>, ran |-> <<>>,
                  threw |-> FALSE, live |-> {}, tick |-> 0]
  /\ line = <<>>
  /\ bytes = <<>>
  /\ offset = 0
  /\ written = <<>>
  /\ cpc = "idle"
  /\ supported = TRUE
  /\ linked = IF connected THEN {1} ELSE {}
  /\ mounted = TRUE
  /\ console = [n |-> 0, tag |-> "none", phase |-> "none", line |-> <<>>]
  /\ wire = [at |-> 0, line |-> <<>>, res |-> "none", caught |-> TRUE]
  /\ cancelled = [kind |-> "none", dir |-> NULL]
  /\ query = [v |-> "none", panelId |-> NULL, sub |-> NULL, dir |-> NULL, phase |-> NULL,
              done |-> FALSE]
  /\ answer = NoPacket

SpecPanel == PanelInit /\ [][PanelNext]_vars

\* The panel of the packet build with the spine tab chosen.
SpineInit ==
  /\ variant = "buildEspPacket"
  /\ selection = "tailSpine"
  /\ subSelection = [p \in PANELS |->
                       CASE p = "legsPelvis" -> "legs" [] p = "headNeck" -> "head"
                         [] p = "tailSpine" -> "spine" [] p = "fullBody" -> "full"]
  /\ activeDir = NULL
  /\ timerRef = 0
  /\ timers = {}
  /\ connected \in BOOLEAN
  /\ log = <<>>
  /\ npress = 0
  /\ lastPress = NULL
  /\ nenv = 0
  /\ elapsed = 0
  /\ server = IF connected THEN 1 ELSE 0
  /\ txChar = IF connected THEN 1 ELSE 0
  /\ msgs = <<>>
  /\ queue = <<>>
  /\ chain = "fulfilled"
  /\ tasks = {}
  /\ inflight = {}
  /\ calls = <<>>
  /\ done = <<>>
  /\ gatt = connected
  /\ rxChar = IF connected THEN 1 ELSE 0
  /\ listening = connected
  /\ conns = {}
  /\ nconn = 0
  /\ connecting = FALSE
  /\ appSeen = [connecting |-> FALSE, connected |-> connected]
  /\ lastTry = IF connected THEN "ok" ELSE "none"
  /\ lastReq = "none"
  /\ down = FALSE
  /\ stopping = {}
  /\ discs = <<>>
  /\ messageHandlers = <<>>
  /\ disconnectHandlers = <<>>
  /\ subs = <<>>
  /\ lastEvent = [kind |-> "none", raw |-> <<>>, arg |-> <<>>, ran |-> <<>>,
                  threw |-> FALSE, live |-> {}, tick |-> 0]
  /\ line = <<>>
  /\ bytes = <<>>
  /\ offset = 0
  /\ written = <<>>
  /\ cpc = "idle"
  /\ supported = TRUE
  /\ linked = IF connected THEN {1} ELSE {}
  /\ mounted = TRUE
  /\ console = [n |-> 0, tag |-> "none", phase |-> "none", line |-> <<>>]
  /\ wire = [at |-> 0, line |-> <<>>, res |-> "none", caught |-> TRUE]
  /\ cancelled = [kind |-> "none", dir |-> NULL]
  /\ query = [v |-> "none", panelId |-> NULL, sub |-> NULL, dir |-> NULL, phase |-> NULL,
              done |-> FALSE]
  /\ answer = NoPacket

SpecSpine == SpineInit /\ [][PanelNext]_vars

(***************************************************************************)
(* The resolver on its own: resolveCommand over commandBySub, and           *)
(* buildEspPacket, called with any region, sub-part, direction and phase.  *)
(***************************************************************************)
Phases == {"start", "hold", "stop"}

\* The resolver of the build is called with the arguments of query.
resolve ==
  /\ ~query.done
  /\ query' = [query EXCEPT !.done = TRUE]
  /\ answer' = IF query.v = "commandBySub"
               THEN CmdPacket(resolveCommand(query.panelId, query.sub, query.dir))
               ELSE buildEspPacket(query.panelId, query.sub, query.dir, query.phase)
  /\ UNCHANGED <<supported, linked, mounted, console, wire, cancelled>>
  /\ UNCHANGED <<dvars, qvars, lvars, hvars, cvars>>

ResolveNext == resolve

ResolveInit ==
  /\ variant = "commandBySub"
  /\ selection = "tailSpine"
  /\ subSelection = [p \in PANELS |->
                       CASE p = "legsPelvis" -> "legs" [] p = "headNeck" -> "head"
                         [] p = "tailSpine" -> "tail" [] p = "fullBody" -> "full"]
  /\ activeDir = NULL
  /\ timerRef = 0
  /\ timers = {}
  /\ connected = FALSE
  /\ log = <<>>
  /\ npress = 0
  /\ lastPress = NULL
  /\ nenv = 0
  /\ elapsed = 0
  /\ server = 0
  /\ txChar = 0
  /\ msgs = <<>>
  /\ queue = <<>>
  /\ chain = "fulfilled"
  /\ tasks = {}
  /\ inflight = {}
  /\ calls = <<>>
  /\ done = <<>>
  /\ gatt = FALSE
  /\ rxChar = 0
  /\ listening = FALSE
  /\ conns = {}
  /\ nconn = 0
  /\ connecting = FALSE
  /\ appSeen = [connecting |-> FALSE, connected |-> FALSE]
  /\ lastTry = "none"
  /\ lastReq = "none"
  /\ down = FALSE
  /\ stopping = {}
  /\ discs = <<>>
  /\ messageHandlers = <<>>
  /\ disconnectHandlers = <<>>
  /\ subs = <<>>
  /\ lastEvent = [kind |-> "none", raw |-> <<>>, arg |-> <<>>, ran |-> <<>>,
                  threw |-> FALSE, live |-> {}, tick |-> 0]
  /\ line = <<>>
  /\ bytes = <<>>
  /\ offset = 0
  /\ written = <<>>
  /\ cpc = "idle"
  /\ supported = TRUE
  /\ linked = {}
  /\ mounted = TRUE
  /\ console = [n |-> 0, tag |-> "none", phase |-> "none", line |-> <<>>]
  /\ wire = [at |-> 0, line |-> <<>>, res |-> "none", caught |-> TRUE]
  /\ cancelled = [kind |-> "none", dir |-> NULL]
  /\ query \in [v : Variants, panelId : PANELS, sub : AllSubs, dir : Dirs,
                 phase : Phases, done : {FALSE}]
  /\ answer = NoPacket

SpecResolve == ResolveInit /\ [][ResolveNext]_vars

(***************************************************************************)
(* The control senders of the three client modules.  sendJson serialises   *)
(* the object literal in the order of its keys.                            *)
(***************************************************************************)
Clients == {"bleClient", "bleClientDirection", "Spine_Function"}

\* bleClient.js, second definition of the file: { target, direction, phase }.
sendCommandDirection(target, direction, phase) ==
  << <<"target", target>>, <<"direction", direction>>, <<"phase", phase>> >>

\* sendCommand as the client module c defines it.
sendCommandOf(c, target, direction, phase) ==
  IF c = "bleClientDirection"
  THEN sendCommandDirection(target, direction, phase)
  ELSE sendCommand(target, direction, phase)

\* A caller of the older interface: BLE.sendCommand(target, direction, phase)
\* on a connected link; wire holds the object handed to sendString.
callSendCommand ==
  /\ ~query.done
  /\ query' = [query EXCEPT !.done = TRUE]
  /\ wire' = [at |-> wire.at + 1,
              line |-> sendCommandOf(query.v, query.panelId, query.dir, query.phase),
              res |-> "written", caught |-> TRUE]
  /\ UNCHANGED <<supported, linked, mounted, console, cancelled, answer>>
  /\ UNCHANGED <<dvars, qvars, lvars, hvars, cvars>>

ShimNext == callSendCommand

ShimInit ==
  /\ variant = "commandBySub"
  /\ selection = "tailSpine"
  /\ subSelection = [p \in PANELS |->
                       CASE p = "legsPelvis" -> "legs" [] p = "headNeck" -> "head"
                         [] p = "tailSpine" -> "tail" [] p = "fullBody" -> "full"]
  /\ activeDir = NULL
  /\ timerRef = 0
  /\ timers = {}
  /\ connected = FALSE
  /\ log = <<>>
  /\ npress = 0
  /\ lastPress = NULL
  /\ nenv = 0
  /\ elapsed = 0
  /\ server = 0
  /\ txChar = 0
  /\ msgs = <<>>
  /\ queue = <<>>
  /\ chain = "fulfilled"
  /\ tasks = {}
  /\ inflight = {}
  /\ calls = <<>>
  /\ done = <<>>
  /\ gatt = FALSE
  /\ rxChar = 0
  /\ listening = FALSE
  /\ conns = {}
  /\ nconn = 0
  /\ connecting = FALSE
  /\ appSeen = [connecting |-> FALSE, connected |-> FALSE]
  /\ lastTry = "none"
  /\ lastReq = "none"
  /\ down = FALSE
  /\ stopping = {}
  /\ discs = <<>>
  /\ messageHandlers = <<>>
  /\ disconnectHandlers = <<>>
  /\ subs = <<>>
  /\ lastEvent = [kind |-> "none", raw |-> <<>>, arg |-> <<>>, ran |-> <<>>,
                  threw |-> FALSE, live |-> {}, tick |-> 0]
  /\ line = <<>>
  /\ bytes = <<>>
  /\ offset = 0
  /\ written = <<>>
  /\ cpc = "idle"
  /\ supported = TRUE
  /\ linked = {}
  /\ mounted = TRUE
  /\ console = [n |-> 0, tag |-> "none", phase |-> "none", line |-> <<>>]
  /\ wire = [at |-> 0, line |-> <<>>, res |-> "none", caught |-> TRUE]
  /\ cancelled = [kind |-> "none", dir |-> NULL]
  /\ query \in [v : Clients, panelId : PANELS, sub : {"full"}, dir : Dirs,
                 phase : Phases, done : {FALSE}]
  /\ answer = NoPacket

SpecShim == ShimInit /\ [][ShimNext]_vars

(***************************************************************************)
(* The codec of sendString: the line is newline-terminated, UTF-8 encoded  *)
(* and written in slices of CHUNK bytes. One call, every write resolving.  *)
(***************************************************************************)
NL == 10

MaxLineChars == CHUNK * MaxChunks + 1

\* The lines that are sent, as sequences of code points: letters only, ending
\* with one newline, ending with two, and with a two-byte character in every
\* fifth place.
LineKinds == {"plain", "nl", "nlnl", "wide"}

MkLine(n, kind) ==
  [i \in 1..n |->
     CASE kind = "nl" /\ i = n        -> NL
       [] kind = "nlnl" /\ i >= n - 1 -> NL
       [] kind = "wide" /\ i % 5 = 0  -> 233
       [] OTHER                       -> 97 + (i % 26)]

Lines == {MkLine(n, kind) : n \in 0..MaxLineChars, kind \in LineKinds}

\* TextEncoder.encode of one code point below 2048.
encodeChar(c) == IF c < 128 THEN <<c>> ELSE <<192 + (c \div 64), 128 + (c % 64)>>

RECURSIVE encode(_)
\* new TextEncoder().encode(str)
encode(str) == IF str = <<>> THEN <<>> ELSE encodeChar(Head(str)) \o encode(Tail(str))

\* line.endsWith("\n")
endsWith(str, c) == str # <<>> /\ str[Len(str)] = c

\* A sendString that appends the newline to every line.
terminatedAlways(str) == Append(str, NL)

\* line.endsWith("\n") ? line : line + "\n"
terminated(str) == IF endsWith(str, NL) THEN str ELSE Append(str, NL)

\* bytes.slice(i, j)
slice(b, i, j) == SubSeq(b, i + 1, IF j < Len(b) THEN j ELSE Len(b))

\* sendString(line) up to the loop: the connected check passes, the line is
\* terminated and encoded.
encodeLine ==
  /\ cpc = "called"
  /\ supported = TRUE
  /\ linked = {}
  /\ mounted = TRUE
  /\ console = [n |-> 0, tag |-> "none", phase |-> "none", line |-> <<>>]
  /\ wire = [at |-> 0, line |-> <<>>, res |-> "none", caught |-> TRUE]
  /\ cancelled = [kind |-> "none", dir |-> NULL]
  /\ query = [v |-> "none", panelId |-> NULL, sub |-> NULL, dir |-> NULL, phase |-> NULL,
              done |-> FALSE]
  /\ answer = NoPacket
  /\ isConnected
  /\ bytes' = encode(terminated(line))
  /\ offset' = 0
  /\ cpc' = "loop"
  /\ UNCHANGED <<line, written>>
  /\ UNCHANGED <<dvars, qvars, lvars, hvars, pvars>>

\* One turn of the loop: the slice at i is written, i += CHUNK.
writeSlice ==
  /\ cpc = "loop"
  /\ offset < Len(bytes)
  /\ written' = Append(written, slice(bytes, offset, offset + CHUNK))
  /\ offset' = offset + CHUNK
  /\ UNCHANGED <<line, bytes, cpc>>
  /\ UNCHANGED <<dvars, qvars, lvars, hvars, pvars>>

\* The loop condition fails: sendString returns.
returnSend ==
  /\ cpc = "loop"
  /\ offset >= Len(bytes)
  /\ cpc' = "returned"
  /\ UNCHANGED <<line, bytes, offset, written>>
  /\ UNCHANGED <<dvars, qvars, lvars, hvars, pvars>>

ChunkNext ==
  \/ encodeLine
  \/ writeSlice
  \/ returnSend

\* sendString has been called with a line, on a connected client.
ChunkInit ==
  /\ variant = "commandBySub"
  /\ selection = "tailSpine"
  /\ subSelection = [p \in PANELS |->
                       CASE p = "legsPelvis" -> "legs" [] p = "headNeck" -> "head"
                         [] p = "tailSpine" -> "tail" [] p = "fullBody" -> "full"]
  /\ activeDir = NULL
  /\ timerRef = 0
  /\ timers = {}
  /\ connected = TRUE
  /\ log = <<>>
  /\ npress = 0
  /\ lastPress = NULL
  /\ nenv = 0
  /\ elapsed = 0
  /\ server = 1
  /\ txChar = 1
  /\ msgs = <<>>
  /\ queue = <<>>
  /\ chain = "fulfilled"
  /\ tasks = {}
  /\ inflight = {}
  /\ calls = <<>>
  /\ done = <<>>
  /\ gatt = TRUE
  /\ rxChar = 1
  /\ listening = TRUE
  /\ conns = {}
  /\ nconn = 0
  /\ connecting = FALSE
  /\ appSeen = [connecting |-> FALSE, connected |-> TRUE]
  /\ lastTry = "ok"
  /\ lastReq = "none"
  /\ down = FALSE
  /\ stopping = {}
  /\ discs = <<>>
  /\ messageHandlers = <<>>
  /\ disconnectHandlers = <<>>
  /\ subs = <<>>
  /\ lastEvent = [kind |-> "none", raw |-> <<>>, arg |-> <<>>, ran |-> <<>>,
                  threw |-> FALSE, live |-> {}, tick |-> 0]
  /\ line \in Lines
  /\ bytes = <<>>
  /\ offset = 0
  /\ written = <<>>
  /\ cpc = "called"
  /\ supported = TRUE
  /\ linked = {}
  /\ mounted = TRUE
  /\ console = [n |-> 0, tag |-> "none", phase |-> "none", line |-> <<>>]
  /\ wire = [at |-> 0, line |-> <<>>, res |-> "none", caught |-> TRUE]
  /\ cancelled = [kind |-> "none", dir |-> NULL]
  /\ query = [v |-> "none", panelId |-> NULL, sub |-> NULL, dir |-> NULL, phase |-> NULL,
              done |-> FALSE]
  /\ answer = NoPacket

SpecChunk == ChunkInit /\ [][ChunkNext]_vars

RECURSIVE Concat(_)
Concat(ss) == IF ss = <<>> THEN <<>> ELSE Head(ss) \o Concat(Tail(ss))

\* The newline-terminated line in bytes: one newline appended if and only if
\* the line does not end with one.
WireLine == encode(line) \o (IF line # <<>> /\ line[Len(line)] = NL THEN <<>> ELSE <<NL>>)

\* C11: sendString writes ceil(L / 18) chunks of at most 18 bytes, in order,
\* where L is the byte length of the line with one newline appended if and
\* only if it did not end with one; the chunks concatenated are that line.
C11_Chunking ==
  /\ \A k \in 1..Len(written) : Len(written[k]) \in 1..CHUNK
  /\ Len(Concat(written)) <= Len(WireLine)
  /\ Concat(written) = SubSeq(WireLine, 1, Len(Concat(written)))
  /\ cpc = "returned" =>
       /\ Len(written) = (Len(WireLine) + CHUNK - 1) \div CHUNK
       /\ Concat(written) = WireLine

\* A line of several chunks was sent whose last chunk is short; a line that
\* already ended with a newline was sent as it was.
C11_Witness ==
  /\ cpc = "returned"
  /\ \/ /\ Len(written) >= 2
        /\ Len(written[Len(written)]) < CHUNK
        /\ line[Len(line)] # NL
        /\ \E i \in 1..Len(line) : line[i] >= 128
     \/ /\ Len(line) = CHUNK
        /\ line[Len(line)] = NL
        /\ written = <<bytes>>

(***************************************************************************)
(* Properties of the write pipeline.                                       *)
(***************************************************************************)
Last(q) == q[Len(q)]

IsEnqueued(i) == msgs[i].enq

IsDoneEnqueued(d) == msgs[d.m].enq

\* The messages accepted by sendString (called while connected), in the order
\* of the calls, and those of them that have completed, in completion order.
EnqueuedIds == SelectSeq([i \in 1..Len(msgs) |-> i], IsEnqueued)

DoneEnqueued == SelectSeq(done, IsDoneEnqueued)

CallsOf(m) == {i \in 1..Len(calls) : calls[i].m = m}

AttemptsOf(m, off) == {i \in CallsOf(m) : calls[i].off = off}

HasDone(m, res) == \E k \in 1..Len(done) : done[k] = [m |-> m, res |-> res]

Idle(m) == (\A t \in tasks : t.m # m) /\ (\A c \in inflight : c.m # m)

\* C1: for sendString calls issued while connected, at most one channel write
\* is in flight at any time, and the messages complete in the order in which
\* they were accepted.
C1_OneWriteInOrder ==
  /\ Cardinality(inflight) <= 1
  /\ Len(DoneEnqueued) <= Len(EnqueuedIds)
  /\ \A i \in 1..Len(DoneEnqueued) : DoneEnqueued[i].m = EnqueuedIds[i]

\* C7: a sub-write whose first attempt fails busy is retried exactly once after
\* the delay; busy-then-success delivers the chunk, two failures in a row
\* surface the failure, and no sub-write is attempted more than twice.
C7_BusyRetriedOnce ==
  /\ \A c \in inflight : c.attempt \in {0, 1}
  /\ \A i \in 1..Len(calls) :
       LET c == calls[i] IN
       /\ c.attempt \in {0, 1}
       /\ Cardinality(AttemptsOf(c.m, c.off)) <= 2
       /\ c.attempt = 1 =>
            \E j \in 1..(i - 1) :
              /\ calls[j].m = c.m /\ calls[j].off = c.off
              /\ calls[j].attempt = 0 /\ calls[j].res = "busy"
       /\ (c.attempt = 0 /\ c.res = "busy") =>
            \/ \E t \in tasks : t.m = c.m /\ t.off = c.off /\ t.pc = "backoff"
            \/ \E k \in inflight : k.m = c.m /\ k.off = c.off /\ k.attempt = 1
            \/ \E j \in AttemptsOf(c.m, c.off) : j > i /\ calls[j].attempt = 1
            \/ HasDone(c.m, "typeerror")
       /\ (c.attempt = 1 /\ c.res = "ok" /\ c.off + CHUNK >= msgs[c.m].len) =>
            HasDone(c.m, "ok")
       /\ (c.attempt = 1 /\ c.res = "ok" /\ c.off + CHUNK < msgs[c.m].len) =>
            ~HasDone(c.m, "busy") \/ \E j \in CallsOf(c.m) : j > i
       /\ (c.attempt = 1 /\ c.res # "ok") =>
            /\ HasDone(c.m, c.res)
            /\ Idle(c.m)
            /\ \A j \in CallsOf(c.m) : j <= i

\* A message was delivered by a retry: busy, then success, and it completed.
C7_Witness ==
  \E i \in 1..Len(calls) :
    /\ calls[i].attempt = 1 /\ calls[i].res = "ok"
    /\ HasDone(calls[i].m, "ok")
    /\ \E j \in 1..Len(calls) : calls[j].attempt = 1 /\ calls[j].res = "busy"

\* C8: a sub-write that fails with an error other than busy is attempted once:
\* the message fails with that error at once, with no retry and no delay.
C8_OtherErrorNotRetried ==
  \A i \in 1..Len(calls) :
    LET c == calls[i] IN
    (c.attempt = 0 /\ c.res = "error") =>
      /\ AttemptsOf(c.m, c.off) = {i}
      /\ HasDone(c.m, "error")
      /\ Idle(c.m)
      /\ \A j \in CallsOf(c.m) : j <= i

\* A first attempt failed with another error and its message has failed.
C8_Witness ==
  \E i \in 1..Len(calls) :
    calls[i].attempt = 0 /\ calls[i].res = "error" /\ HasDone(calls[i].m, "error")

\* A write that failed for good: not the busy failure of a first attempt.
FinalFailure(c) == c.res # "ok" /\ ~(c.attempt = 0 /\ c.res = "busy")

\* C9: when a sub-write of a message fails for good, the message fails and no
\* later chunk of that message is written to the channel.
C9_FailureStopsMessage ==
  \A i \in 1..Len(calls) :
    LET c == calls[i] IN
    FinalFailure(c) =>
      /\ HasDone(c.m, c.res)
      /\ Idle(c.m)
      /\ \A j \in CallsOf(c.m) : j <= i /\ calls[j].off <= c.off

\* The first chunk of a message of several chunks failed for good.
C9_Witness ==
  \E i \in 1..Len(calls) :
    /\ FinalFailure(calls[i])
    /\ calls[i].off = 0
    /\ msgs[calls[i].m].len > CHUNK
    /\ HasDone(calls[i].m, calls[i].res)

ChunkOffsets(m) == {off \in 0..(msgs[m].len - 1) : off % CHUNK = 0}

\* C10: a message that fails in the queue affects only itself: the messages
\* behind it are still run, and each completion tells of its own writes only.
C10_FailureIsLocal ==
  \A k \in 1..Len(done) :
    LET d == done[k] IN
    msgs[d.m].enq =>
      /\ d.res # "inherited"
      /\ d.res = "ok" <=>
           \A off \in ChunkOffsets(d.m) :
             \E i \in AttemptsOf(d.m, off) : calls[i].res = "ok"
      /\ d.res \in {"busy", "error"} =>
           \E i \in CallsOf(d.m) :
             /\ calls[i].res = d.res
             /\ \A j \in CallsOf(d.m) : j <= i

\* A message failed on the channel and the message behind it was delivered.
C10_Witness ==
  \E j \in 1..Len(done), k \in 1..Len(done) :
    /\ j < k
    /\ done[j].m < done[k].m
    /\ msgs[done[j].m].enq /\ msgs[done[k].m].enq
    /\ done[j].res \in {"busy", "error"}
    /\ done[k].res = "ok"

(***************************************************************************)
(* Properties of the hold dispatcher.                                      *)
(***************************************************************************)
\* C2: every press-to-release cycle produces one start, then holds, then one
\* stop, all for the same direction, and nothing of the cycle after its stop:
\* in the packet log a start opens a cycle only after a stop, a hold or stop
\* continues the cycle of its direction, and an idle dispatcher has closed it.
C2_GestureCycle ==
  /\ \A i \in 1..Len(log) :
       /\ log[i].phase = "start" => (i = 1 \/ log[i - 1].phase = "stop")
       /\ log[i].phase \in {"hold", "stop"} =>
            /\ i > 1
            /\ log[i - 1].phase \in {"start", "hold"}
            /\ log[i - 1].dir = log[i].dir
  /\ (activeDir = NULL /\ log # <<>>) => Last(log).phase = "stop"

\* C3: a press accepted while a direction is active first releases that
\* direction (one stop for it, its timer disarmed) and then starts the new one;
\* at most one hold timer is ever armed.
C3_PressReleasesFirst ==
  [][ /\ Cardinality(timers') <= 1
      /\ (/\ activeDir # NULL /\ log' # log
          /\ Last(log').phase = "start" /\ Last(log').dir # activeDir) =>
           /\ Len(log') = Len(log) + 2
           /\ log'[Len(log) + 1].phase = "stop"
           /\ log'[Len(log) + 1].dir = activeDir ]_vars

\* C4: pressing up on legsPelvis/legs and holding for 500 ms leaves the timer
\* armed and has produced one start and exactly three holds.
C4_HoldCadence ==
  (/\ npress = 1 /\ activeDir = "up" /\ elapsed = holdUnits
   /\ selection = "legsPelvis" /\ currentSub = "legs") =>
     /\ \E t \in timers : t.id = timerRef
     /\ Len(log) = 4
     /\ log[1].phase = "start"
     /\ \A i \in 2..4 : log[i].phase = "hold" /\ log[i].dir = "up"

\* C5: a release disarms the timer of the gesture in the same step that
\* decides the stop and clears the active marker: the step produces no hold,
\* and the interval the handle named is not armed when the dispatcher is idle.
C5_ReleaseDisarms ==
  [][ (activeDir # NULL /\ activeDir' = NULL) =>
        /\ timerRef' = 0
        /\ \A t \in timers' : t.id # timerRef
        /\ \/ log' = log
           \/ log' = Append(log, Last(log')) /\ Last(log').phase = "stop" ]_vars

\* A release ended a gesture whose timer was ticking: hold, then stop, idle.
C5_Witness ==
  /\ activeDir = NULL
  /\ timers = {}
  /\ Len(log) >= 3
  /\ log[Len(log)].phase = "stop"
  /\ log[Len(log) - 1].phase = "hold"

\* C6: a press of a direction the capability table does not permit for the
\* selected (region, sub-part) produces no packet, arms no timer and leaves
\* the active marker as it was.
C6_GatedPress ==
  [][ (npress' = npress + 1 /\ ~allowedBySub(selection, currentSub, lastPress')) =>
        UNCHANGED <<activeDir, timerRef, timers, log>> ]_vars

\* The only press so far was of a direction that is not permitted.
C6_Witness ==
  /\ npress = 1
  /\ nenv = 0
  /\ ~allowedBySub(selection, currentSub, lastPress)
  /\ activeDir = NULL
  /\ log = <<>>

(***************************************************************************)
(* Properties of the link manager.                                         *)
(***************************************************************************)
Handles == <<server, txChar, rxChar>>

Occurrences(h, fn) == Cardinality({k \in 1..Len(h) : h[k] = fn})

C16_ThrowIsIsolated ==
  [][ lastEvent' # lastEvent =>
        LET h == IF lastEvent'.kind = "message" THEN messageHandlers
                 ELSE disconnectHandlers
        IN (\E k \in 1..Len(h) : Throws(h[k])) =>
             /\ \A k \in 1..Len(h) : Occurrences(lastEvent'.ran, h[k]) = 1
             /\ ~lastEvent'.threw
             /\ lastEvent'.kind = "disconnect" => (Handles' = <<0, 0, 0>> /\ ~isConnected')
             /\ lastEvent'.kind = "message" => Handles' = Handles
             /\ UNCHANGED <<messageHandlers, disconnectHandlers>> ]_vars

\* A disconnect was handled whose first subscriber threw: the second one was
\* invoked and the handles are cleared.
C16_Witness ==
  /\ lastEvent.kind = "disconnect"
  /\ lastEvent.ran = <<"boom", "f">>
  /\ Handles = <<0, 0, 0>>

\* C17: calling the handle returned by onMessage / onDisconnect ends that
\* subscription only: at every event the callbacks invoked are those of the
\* subscriptions whose own handle was not called, the ones made with the
\* same callback as an ended subscription included. (Notifications with an
\* empty text are left to C18.)
C17_UnsubscribeIsLocal ==
  (lastEvent.kind = "disconnect" \/ (lastEvent.kind = "message" /\ lastEvent.arg # <<>>)) =>
    /\ \A i \in lastEvent.live : Occurrences(lastEvent.ran, subs[i].fn) >= 1
    /\ \A k \in 1..Len(lastEvent.ran) :
         lastEvent.ran[k] \in Callbacks => \E i \in lastEvent.live : subs[i].fn = lastEvent.ran[k]

\* The text of a notification: decoded, with no blank at either end, blanks
\* only around it in the payload.
IsTrimOf(text, str) ==
  /\ text # <<>> => (~isSpace(text[1]) /\ ~isSpace(text[Len(text)]))
  /\ \E i \in 0..Len(str) :
       /\ i + Len(text) <= Len(str)
       /\ SubSeq(str, i + 1, i + Len(text)) = text
       /\ \A k \in 1..Len(str) : (k <= i \/ k > i + Len(text)) => isSpace(str[k])

\* C18: a notification whose trimmed text is empty is forwarded to no
\* onMessage subscriber; one with text is forwarded, trimmed, to all of them.
C18_EmptyNotForwarded ==
  [][ (lastEvent' # lastEvent /\ lastEvent'.kind = "message") =>
        /\ IsTrimOf(lastEvent'.arg, decode(lastEvent'.raw))
        /\ IF lastEvent'.arg = <<>>
           THEN lastEvent'.ran = <<>>
           ELSE lastEvent'.ran = messageHandlers ]_vars

\* C13: once a disconnect event of the peer has been handled, and as long
\* as no new connect has succeeded (none is under way either), isConnected()
\* is false, and a send attempted then is settled at once as "not connected"
\* with no write issued.
C13_DownUntilReconnect ==
  [][ (down /\ conns = {}) =>
        /\ ~isConnected
        /\ Len(msgs') = Len(msgs) + 1 =>
             /\ done' = Append(done, [m |-> Len(msgs'), res |-> "notconnected"])
             /\ inflight' = inflight ]_vars

\* C15: every disconnect() completes normally whatever stopNotifications and
\* server.disconnect do, leaves all handles cleared and isConnected() false,
\* and a call that finds the handles already cleared changes nothing of the
\* link and delivers no event.
C15_DisconnectIdempotent ==
  [][ Len(discs') = Len(discs) + 1 =>
        /\ discs'[Len(discs')].res = "ok"
        /\ Handles' = <<0, 0, 0>>
        /\ ~isConnected'
        /\ Handles = <<0, 0, 0>> => (gatt' = gatt /\ lastEvent' = lastEvent) ]_vars

\* Two disconnect() calls have completed: the first was made on a live link
\* with listeners and dropped it, the second found nothing left to do.
C15_Witness ==
  /\ Len(discs) = 2
  /\ discs[1].res = "ok"
  /\ discs[2].res = "ok"
  /\ stopping = {}
  /\ Handles = <<0, 0, 0>>
  /\ lastEvent.kind = "disconnect"
  /\ ~gatt
  /\ ~isConnected

\* C19: at most one connect() runs at a time, a connect() is started only
\* with no other one under way and no live link, and every write is issued
\* on a characteristic at least as new as the server handle.
C19_OneLiveConnection ==
  [][ /\ Cardinality(conns') <= 1
      /\ (\E c \in conns' \ conns : c.pc = "requestDevice") => (conns = {} /\ ~isConnected)
      /\ \A w \in inflight' \ inflight : w.conn # 0 /\ w.conn >= server ]_vars

\* C20: a connect request made after an attempt that failed, with no
\* attempt under way, is started and not skipped.
C20_RetryAfterFailure ==
  [][ (nconn' = nconn + 1 /\ lastTry = "failed" /\ conns = {}) =>
        lastReq' = "started" ]_vars

\* C21: a connect() on a platform without Web Bluetooth throws the
\* unsupported error before discovery is started, and leaves the handles,
\* the link, the listeners and both subscriber sets as they were.
C21_UnsupportedPlatform ==
  [][ (~supported /\ nconn' = nconn + 1) =>
        /\ lastTry' = "unsupported"
        /\ lastReq' = lastReq
        /\ lastReq' # "started"
        /\ Handles' = Handles
        /\ <<gatt', listening'>> = <<gatt, listening>>
        /\ <<messageHandlers', disconnectHandlers'>> = <<messageHandlers, disconnectHandlers>>
        /\ isConnected' = isConnected
        /\ ~isConnected' ]_vars

\* connect() has thrown the unsupported error twice with subscribers
\* registered, and nothing is bound.
C21_Witness ==
  /\ ~supported
  /\ nconn = 2
  /\ lastTry = "unsupported"
  /\ lastReq = "none"
  /\ messageHandlers # <<>>
  /\ disconnectHandlers # <<>>
  /\ Handles = <<0, 0, 0>>
  /\ ~isConnected

(***************************************************************************)
(* Properties of the panel with its console and transport.                 *)
(***************************************************************************)
\* The packet logged last.
LastPacket == log[Len(log)]

\* The step is an accepted press.
IsPress == npress' = npress + 1 /\ pressGate(variant, selection, currentSub, lastPress')

\* The step is a release of the active direction.
IsRelease == mounted /\ mounted' /\ activeDir # NULL /\ activeDir' = NULL

\* The step logs one more packet, of the given phase.
Logs(phase) == Len(log') = Len(log) + 1 /\ log'[Len(log')].phase = phase

\* The console line of the step is a line for its packet that does not claim
\* a transmission.
PreviewLine(phase) ==
  LET p == log'[Len(log')] IN
  /\ console'.n = Len(log')
  /\ console'.phase = phase
  /\ console'.tag # "TX"
  /\ variant = "commandBySub" =>
       /\ console'.tag = "TX PREVIEW"
       /\ console'.line = buildLine(p.target, resolveCommand(p.target, p.sub, p.dir), phase)
  /\ variant = "buildEspPacket" =>
       console'.line[1] = <<"cmd", buildEspPacket(p.target, p.sub, p.dir, phase).cmd>>

PacketFor(p) ==
  IF p.phase = "hold" THEN holdPacket(variant, p.target, p.sub, p.dir)
  ELSE packetOf(variant, p.target, p.sub, p.dir, p.phase)

\* C23: the console line of a command attempt is the line handed to the
\* transport for it, or the line that would be handed to it when nothing is
\* sent: the same fields with the same values.
C23_LogIsWireLine ==
  /\ console.n > 0 =>
       console.line = wireLine(variant, log[console.n].target,
                               PacketFor(log[console.n]), console.phase)
  /\ (wire.at > 0 /\ wire.at = console.n) => wire.line = console.line

\* C24: an attempt is logged as [TX] only when the link is live and its
\* packet is handed to the characteristic, and never as [TX] while the link
\* is not connected.
C24_TxMeansHandedOver ==
  [][ console'.n # console.n =>
        /\ console'.tag = "TX" => /\ isConnected
                                  /\ wire'.at = console'.n
                                  /\ wire'.res \in {"written", "error"}
        /\ ~isConnected => console'.tag # "TX" ]_vars

\* C25: a send of the panel that fails, not connected or write error, is
\* caught inside sendOverBLE.
C25_FailureIsCaught ==
  (wire.at > 0 /\ wire.res # "written") => wire.caught

\* C26: a press whose start send fails ends Active with its timer armed, and
\* a release ends in Idle with the handle cleared and its timer disarmed.
C26_FailureKeepsTransition ==
  [][ /\ (IsPress /\ wire'.at = Len(log') /\ wire'.res # "written") =>
            /\ activeDir' = lastPress'
            /\ \E t \in timers' : t.id = timerRef'
      /\ IsRelease => /\ timerRef' = 0
                      /\ \A t \in timers' : t.id # timerRef ]_vars

\* C27: once the panel is unmounted no interval is armed and no packet is
\* produced any more.
C27_TeardownDisarms ==
  [][ /\ ~mounted' => timers' = {}
      /\ ~mounted => log' = log ]_vars

\* C28: a pointer-leave, a blur or the teardown that finds a direction
\* active ends in Idle with the timer disarmed and logs exactly one stop
\* packet for that direction.
C28_ExternalCancelStops ==
  [][ (cancelled' # cancelled /\ activeDir # NULL) =>
        /\ activeDir' = NULL
        /\ timerRef' = 0
        /\ Logs("stop")
        /\ log'[Len(log')].dir = activeDir ]_vars

\* The line of a tail setpoint packet.
TailSet(level) == << <<"cmd", "rex_tail_set">>, <<"level", level>> >>

C29_InvalidResolvesNull ==
  (query.done /\ ~allowedBySub(query.panelId, query.sub, query.dir)) => answer = NoPacket

(***************************************************************************)
(* Properties of the control senders.                                      *)
(***************************************************************************)
\* C31: sendCommand(target, direction, phase) hands to the wire the packet of
\* sendControl(target, "full", direction, phase): part is present with the
\* value "full" and the direction is carried as the command.
C31_ShimIsFullControl ==
  query.done => wire.line = sendControl(query.panelId, "full", query.dir, query.phase)

\* C32: on the spine sub-part the release of a held direction hands no
\* packet to the transport: stop means that sending stops.
C32_SpineStopIsSilent ==
  [][ (IsRelease /\ currentSub = "spine") => wire' = wire ]_vars

\* C33: isConnected() is true only when the most recent connect() ran to
\* completion: it is false while a connect() is in progress and after a
\* connect() that failed at any of its steps.
C33_ConnectedMeansCompleted ==
  isConnected => (conns = {} /\ lastTry = "ok" /\ rxChar # 0 /\ listening)

\* C34: in every settled state the hold timer is armed exactly when a
\* direction is active: no render or effect pass disarms it while the
\* direction stays active.
C34_ArmedIffActive ==
  (activeDir # NULL) <=> (\E t \in timers : t.id = timerRef)

\* The start packet of the gesture in progress: the last start logged.
GestureStart ==
  log[CHOOSE i \in 1..Len(log) :
        /\ log[i].phase = "start"
        /\ \A j \in (i + 1)..Len(log) : log[j].phase # "start"]

\* C35: the release of a held direction produces the stop packet of the
\* region, sub-part and direction its start packet was resolved for, also
\* when the selected region or sub-part was changed while it was held.
C35_StopMatchesStart ==
  [][ (activeDir # NULL /\ activeDir' = NULL) =>
        /\ Logs("stop")
        /\ log'[Len(log')].target = GestureStart.target
        /\ log'[Len(log')].sub = GestureStart.sub
        /\ log'[Len(log')].dir = GestureStart.dir ]_vars

(***************************************************************************)
(* Properties of the queued client over several Connections.               *)
(***************************************************************************)
\* C36: all chunk writes of one message go to the write channel of one
\* Connection: after the link was lost and a new Connection made, no
\* remaining chunk of a message begun or queued before is written to it.
C36_OneConnectionPerMessage ==
  \A i, j \in 1..Len(calls) : calls[i].m = calls[j].m => calls[i].conn = calls[j].conn

(***************************************************************************)
(* Properties of the client with several devices.                          *)
(***************************************************************************)
\* C37: a disconnect event of a device selected earlier, delivered while a
\* later Connection is live, leaves the handles of the live Connection:
\* isConnected() stays true.
C37_StaleDisconnectIgnored ==
  [][ (isConnected /\ linked' # linked /\ server \in linked') => isConnected' ]_vars

C39_WireOrder ==
  /\ \A c \in inflight, k \in inflight : c.m = k.m
  /\ \A c \in inflight : \A i \in 1..Len(calls) : calls[i].m <= c.m
  /\ \A i \in 1..Len(calls), j \in 1..Len(calls) : i < j => calls[i].m <= calls[j].m

(***************************************************************************)
(* Progress of the write queue.                                            *)
(***************************************************************************)
\* The promise sendString returned for message m has settled.
Completed(m) == \E k \in 1..Len(done) : done[k].m = m

\* C40: when every channel write settles, every message given to sendString
\* completes, with success or with an error, whatever the messages before it
\* met: successes, busy errors, other failures.
C40_EveryMessageCompletes ==
  \A m \in 1..MaxMsgs : (Len(msgs) >= m) ~> Completed(m)

\* Every message has completed and the queue is empty, after a message that
\* failed busy twice and one behind it that was delivered.
C40_Witness ==
  /\ Len(msgs) >= 2
  /\ \A m \in 1..Len(msgs) : msgs[m].enq /\ Completed(m)
  /\ queue = <<>> /\ tasks = {} /\ inflight = {}
  /\ \E j \in 1..Len(done), k \in 1..Len(done) :
       /\ done[j].m < done[k].m
       /\ done[j].res = "busy"
       /\ done[k].res = "ok"

=============================================================================
